---- MODULE Spec2Model ----
(***************************************************************************)
(* Purchase-order lifecycle of purchase_management_system:                 *)
(* app/services/purchase_order_service.py (PurchaseOrderService),          *)
(* the inventory handlers of app/main.py and the tables of                 *)
(* app/models/tables.py.  Every request runs in one SQLAlchemy session     *)
(* (app/db/session.py get_db): a handler that raises never commits, the    *)
(* session is closed and the database keeps its state, so every action     *)
(* below is either the committed effect of the whole handler or a          *)
(* failure that leaves the tables unchanged.                               *)
(***************************************************************************)
EXTENDS Integers, Sequences, FiniteSets, Bags, TLC

\* Python None / SQL NULL for nullable integer columns and optional arguments.
NULL == -1

\* ---------------------------------------------------------------- bounds
MaxOrders == 2      \* orders existing at the same time
MaxQty == 2         \* largest quantity of an order line or stock movement
MaxLog == 2         \* rows kept in inventory_transactions / purchase_results
MaxVersion == 2     \* highest _v suffix of a regenerated PDF

\* ------------------------------------------------------ program constants
DEFAULT_DUPLICATE_WINDOW_SECONDS == 120

\* Derived limits: the largest purchase_order_lines.id handed out and the
\* clock horizon in seconds.
MaxLineId == 2 * MaxOrders
MaxTime == DEFAULT_DUPLICATE_WINDOW_SECONDS + 1

\* -------------------------------------------------------------- catalog
\* The catalog (items, suppliers) is edited by CRUD handlers outside the
\* order service; it is fixed here.  Item 1 has a default supplier, a
\* department, a manufacturer and a default price; item 2 has none of them.
Items == {1, 2}
Suppliers == {1, 2}
UnknownId == Cardinality(Items) + 1
Requests == {1, 2, 3}
\* The requests most scenarios stage and order; request 3 stays as registered
\* in them.
StagingRequests == {1, 2}

ItemSupplierId(i) == IF i = 1 THEN 1 ELSE NULL
ItemDepartment(i) == IF i = 1 THEN "A" ELSE ""
ItemManufacturer(i) == IF i = 1 THEN "M" ELSE ""
ItemUnitPrice(i) == IF i = 1 THEN 5 ELSE NULL
ItemReorderPoint(i) == IF i = 1 THEN 1 ELSE 0

\* Supplier 1 has an e-mail address, supplier 2 has none.
SupplierEmail(s) == IF s = 1 THEN "s1@example.com" ELSE ""

\* Unmanaged requests are registered by handlers outside the service; their
\* content is fixed: request 1 references catalog item 1, requests 2 and 3
\* are free text and ask for the same thing.
ReqItemId(r) == IF r = 1 THEN 1 ELSE NULL
ReqItemCodeFree(r) == IF r = 1 THEN "" ELSE "X"
ReqQuantity(r) == 1
ReqManufacturer(r) == ""
ReqNote(r) == ""

\* str.strip() on the strings used as inputs.
Strip(s) == CASE s = " " -> "" [] s = " X" -> "X" [] OTHER -> s

\* str.upper() on the strings used as inputs.
Upper(s) == CASE s = "cancelled" -> "CANCELLED" [] s = "sent" -> "SENT" [] OTHER -> s

Statuses == {"DRAFT", "CONFIRMED", "SENT", "WAITING", "RECEIVED", "CANCELLED"}

VARIABLES
    orders,          \* purchase_orders: id -> row
    lines,           \* purchase_order_lines: id -> row
    requests,        \* unmanaged_order_requests: id -> row
    on_hand,         \* inventory_items.quantity_on_hand per item
    ledger,          \* inventory_transactions, in insertion order
    results,         \* purchase_results, in insertion order
    item_suppliers,  \* item_suppliers: <<item, supplier>> -> unit_price
    price_history,   \* unit_price_history, in insertion order
    documents,       \* purchase_order_documents: order id -> row
    nas_files,       \* the PDF files on the NAS, by path
    email_logs,      \* email_send_logs, in insertion order
    now,             \* wall clock, seconds
    inflight,        \* requests being served: what each has read so far
    last             \* the last call: its arguments and what it returned

db == <<orders, lines, requests, on_hand, ledger, results, item_suppliers, price_history, documents, nas_files, email_logs>>
vars == <<orders, lines, requests, on_hand, ledger, results, item_suppliers, price_history, documents, nas_files, email_logs, now, inflight, last>>

\* ------------------------------------------------------------- helpers
Max(S) == CHOOSE x \in S : \A y \in S : y <= x
Min(S) == CHOOSE x \in S : \A y \in S : x <= y

RECURSIVE SortedSeq(_)
SortedSeq(S) == IF S = {} THEN <<>> ELSE <<Min(S)>> \o SortedSeq(S \ {Min(S)})

RECURSIVE SumDelta(_, _)
SumDelta(log, i) ==
    IF log = <<>> THEN 0
    ELSE (IF Head(log).item_id = i THEN Head(log).delta ELSE 0) + SumDelta(Tail(log), i)

\* order.lines: the lines of an order, by id.
OrderLineIds(o) == {l \in DOMAIN lines : lines[l].purchase_order_id = o}

\* What the last call was and what it returned: the operation, success or the
\* error raised, the order it returned or was about, the reused flag of
\* create_order, and the status the order had when the call began.  A call
\* that succeeded also keeps its arguments: line_receipts of
\* receive_order_partial, <<lines, ordered_by_user, department>> of
\* create_order.  Calls leave the clock alone and Tick leaves last alone, so
\* a step with now' = now is a call and last' describes it.
NoCall ==
    [op |-> "", ok |-> TRUE, err |-> "", order_id |-> NULL, reused |-> FALSE,
     pre_status |-> "", line_receipts |-> <<>>, payload |-> <<>>]

Init ==
    /\ orders = <<>>
    /\ lines = <<>>
    /\ requests = [r \in Requests |->
          [status |-> "PENDING", purchase_order_id |-> NULL,
           purchase_order_line_id |-> NULL, staged_supplier_id |-> NULL,
           staged_at |-> NULL]]
    /\ on_hand = [i \in Items |-> 0]
    /\ ledger = <<>>
    /\ results = <<>>
    /\ item_suppliers = <<>>
    /\ price_history = <<>>
    /\ documents = <<>>
    /\ nas_files = {}
    /\ email_logs = <<>>
    /\ now = 0
    /\ inflight = <<>>
    /\ last = NoCall

\* ------------------------------------------------- inventory handlers
Tx(i, type, delta, o, l) ==
    [item_id |-> i, tx_type |-> type, delta |-> delta, order_id |-> o, line_id |-> l]

Fail(call, e) == [call EXCEPT !.ok = FALSE, !.err = e, !.order_id = NULL]

\* api_inventory_issue, "inventory_item.quantity_on_hand < payload.quantity".
InsufficientStock_Never(quantity_on_hand, quantity) == FALSE
InsufficientStock(quantity_on_hand, quantity) == quantity_on_hand < quantity

\* main.py api_inventory_issue (and the form handler inventory_issue).
api_inventory_issue(code, quantity) ==
    LET call == [NoCall EXCEPT !.op = "issue"] IN
    /\ Len(ledger) < MaxLog
    /\ IF quantity <= 0 THEN last' = Fail(call, "InvalidQuantity") /\ UNCHANGED db
       ELSE IF code \notin Items THEN last' = Fail(call, "UnknownItem") /\ UNCHANGED db
       ELSE IF InsufficientStock(on_hand[code], quantity)
            THEN last' = Fail(call, "InsufficientStock") /\ UNCHANGED db
       ELSE /\ on_hand' = [on_hand EXCEPT ![code] = @ - quantity]
            /\ ledger' = Append(ledger, Tx(code, "issue", 0 - quantity, NULL, NULL))
            /\ last' = call
            /\ UNCHANGED <<orders, lines, requests, results, item_suppliers, price_history, documents, nas_files, email_logs>>
    /\ UNCHANGED <<now, inflight>>

\* main.py api_inventory_receipt.
api_inventory_receipt(code, quantity) ==
    LET call == [NoCall EXCEPT !.op = "receipt"] IN
    /\ Len(ledger) < MaxLog
    /\ IF quantity <= 0 THEN last' = Fail(call, "InvalidQuantity") /\ UNCHANGED db
       ELSE IF code \notin Items THEN last' = Fail(call, "UnknownItem") /\ UNCHANGED db
       ELSE /\ on_hand' = [on_hand EXCEPT ![code] = @ + quantity]
            /\ ledger' = Append(ledger, Tx(code, "receipt", quantity, NULL, NULL))
            /\ last' = call
            /\ UNCHANGED <<orders, lines, requests, results, item_suppliers, price_history, documents, nas_files, email_logs>>
    /\ UNCHANGED <<now, inflight>>

\* main.py api_inventory_adjustment: the result is checked before it is stored.
api_inventory_adjustment(code, delta) ==
    LET call == [NoCall EXCEPT !.op = "adjustment"] IN
    /\ Len(ledger) < MaxLog
    /\ IF delta = 0 THEN last' = Fail(call, "InvalidQuantity") /\ UNCHANGED db
       ELSE IF code \notin Items THEN last' = Fail(call, "UnknownItem") /\ UNCHANGED db
       ELSE IF on_hand[code] + delta < 0
            THEN last' = Fail(call, "InsufficientStock") /\ UNCHANGED db
       ELSE /\ on_hand' = [on_hand EXCEPT ![code] = on_hand[code] + delta]
            /\ ledger' = Append(ledger, Tx(code, "adjust", delta, NULL, NULL))
            /\ last' = call
            /\ UNCHANGED <<orders, lines, requests, results, item_suppliers, price_history, documents, nas_files, email_logs>>
    /\ UNCHANGED <<now, inflight>>

\* main.py inventory_adjust: the row is changed in the session first and the
\* handler raises before commit when the result is negative (nothing is stored).
inventory_adjust(code, delta) ==
    LET call == [NoCall EXCEPT !.op = "adjust"] IN
    /\ Len(ledger) < MaxLog
    /\ IF delta = 0 THEN last' = Fail(call, "InvalidQuantity") /\ UNCHANGED db
       ELSE IF code \notin Items THEN last' = Fail(call, "UnknownItem") /\ UNCHANGED db
       ELSE LET staged == [on_hand EXCEPT ![code] = @ + delta] IN
            IF staged[code] < 0
            THEN last' = Fail(call, "InsufficientStock") /\ UNCHANGED db
            ELSE /\ on_hand' = staged
                 /\ ledger' = Append(ledger, Tx(code, "adjust", delta, NULL, NULL))
                 /\ last' = call
                 /\ UNCHANGED <<orders, lines, requests, results, item_suppliers, price_history, documents, nas_files, email_logs>>
    /\ UNCHANGED <<now, inflight>>

\* main.py inventory_inline_adjust: sets the stock to a target; a ledger row is
\* written only when the stock changes.
inventory_inline_adjust(code, target_quantity) ==
    LET call == [NoCall EXCEPT !.op = "inline_adjust"] IN
    /\ Len(ledger) < MaxLog
    /\ IF target_quantity < 0 THEN last' = Fail(call, "InvalidQuantity") /\ UNCHANGED db
       ELSE IF code \notin Items THEN last' = Fail(call, "UnknownItem") /\ UNCHANGED db
       ELSE LET before_quantity == on_hand[code]
                delta == target_quantity - before_quantity IN
            /\ on_hand' = [on_hand EXCEPT ![code] = target_quantity]
            /\ ledger' = IF delta # 0
                         THEN Append(ledger, Tx(code, "adjust", delta, NULL, NULL))
                         ELSE ledger
            /\ last' = call
            /\ UNCHANGED <<orders, lines, requests, results, item_suppliers, price_history, documents, nas_files, email_logs>>
    /\ UNCHANGED <<now, inflight>>

\* ------------------------------------------------------- create_order
\* One raw line of a create_order payload (PurchaseOrderLinePayload plus the
\* unmanaged_request_id key the candidate screen adds).
RawLine(item, name, maker, qty, note, sup, price, req) ==
    [item_id |-> item, item_name_free |-> name, maker |-> maker, quantity |-> qty,
     note |-> note, supplier_id |-> sup, unit_price |-> price, unmanaged_request_id |-> req]

\* The ItemSupplier price of (item, supplier), None when there is no row or no price.
ItemSupplierPrice(i, s) ==
    IF <<i, s>> \in DOMAIN item_suppliers THEN item_suppliers[<<i, s>>] ELSE NULL

\* create_order, the body of "for raw in lines": one raw line is normalised
\* into acc, or the first error is kept.
NormalizeLine(raw, acc) ==
    IF acc.err # "" THEN acc
    ELSE IF raw.unmanaged_request_id # NULL THEN
        LET r == raw.unmanaged_request_id IN
        IF ~(r \in Requests /\ requests[r].status = "PENDING"
                /\ requests[r].staged_supplier_id # NULL)
        THEN [acc EXCEPT !.err = "RequestNotStaged"]
        ELSE
        LET quantity == IF raw.quantity # 0 THEN raw.quantity ELSE ReqQuantity(r)
            note == IF Strip(raw.note) # "" THEN Strip(raw.note) ELSE ReqNote(r)
            effective_supplier_id ==
                IF raw.supplier_id # NULL THEN raw.supplier_id
                ELSE requests[r].staged_supplier_id
            item == ReqItemId(r)
            price == IF ItemSupplierPrice(item, effective_supplier_id) # NULL
                     THEN ItemSupplierPrice(item, effective_supplier_id)
                     ELSE ItemUnitPrice(item)
        IN
        IF quantity <= 0 THEN [acc EXCEPT !.err = "InvalidQuantity"]
        ELSE IF item # NULL THEN
            [acc EXCEPT
                !.supplier_ids = @ \cup {effective_supplier_id},
                !.normalized = Append(@,
                    [item_id |-> item, item_name_free |-> "",
                     maker |-> Strip(IF ReqManufacturer(r) # "" THEN ReqManufacturer(r)
                                     ELSE ItemManufacturer(item)),
                     quantity |-> quantity, note |-> note,
                     supplier_id |-> effective_supplier_id, unit_price |-> price,
                     unmanaged_request_id |-> r])]
        ELSE
            [acc EXCEPT
                !.supplier_ids = @ \cup {effective_supplier_id},
                !.normalized = Append(@,
                    [item_id |-> NULL, item_name_free |-> Strip(ReqItemCodeFree(r)),
                     maker |-> Strip(ReqManufacturer(r)),
                     quantity |-> quantity, note |-> note,
                     supplier_id |-> effective_supplier_id, unit_price |-> NULL,
                     unmanaged_request_id |-> r])]
    ELSE
        LET item_id == IF raw.item_id = 0 THEN NULL ELSE raw.item_id
            item_name_free == Strip(raw.item_name_free)
            maker == Strip(raw.maker)
        IN
        IF raw.quantity <= 0 THEN [acc EXCEPT !.err = "InvalidQuantity"]
        ELSE IF item_id # NULL THEN
            IF item_id \notin Items THEN [acc EXCEPT !.err = "UnknownItem"]
            ELSE
            LET effective_supplier_id ==
                    IF raw.supplier_id # NULL THEN raw.supplier_id
                    ELSE ItemSupplierId(item_id)
                price == IF raw.unit_price # NULL THEN raw.unit_price
                         ELSE IF ItemSupplierPrice(item_id, effective_supplier_id) # NULL
                         THEN ItemSupplierPrice(item_id, effective_supplier_id)
                         ELSE ItemUnitPrice(item_id)
            IN
            IF effective_supplier_id = NULL \/ effective_supplier_id = 0
            THEN [acc EXCEPT !.err = "SupplierRequired"]
            ELSE
            [acc EXCEPT
                !.supplier_ids = @ \cup {effective_supplier_id},
                !.resolved_department =
                    IF @ = "" /\ ItemDepartment(item_id) # ""
                    THEN ItemDepartment(item_id) ELSE @,
                !.normalized = Append(@,
                    [item_id |-> item_id, item_name_free |-> "",
                     maker |-> IF maker # "" THEN maker ELSE ItemManufacturer(item_id),
                     quantity |-> raw.quantity, note |-> Strip(raw.note),
                     supplier_id |-> effective_supplier_id, unit_price |-> price,
                     unmanaged_request_id |-> NULL])]
        ELSE
            IF item_name_free = "" THEN [acc EXCEPT !.err = "InvalidLine"]
            ELSE
            [acc EXCEPT
                !.normalized = Append(@,
                    [item_id |-> NULL, item_name_free |-> item_name_free,
                     maker |-> maker, quantity |-> raw.quantity, note |-> Strip(raw.note),
                     supplier_id |-> NULL, unit_price |-> NULL,
                     unmanaged_request_id |-> NULL])]

RECURSIVE NormalizeLines(_, _)
NormalizeLines(raws, acc) ==
    IF raws = <<>> THEN acc
    ELSE NormalizeLines(Tail(raws), NormalizeLine(Head(raws), acc))

\* _line_signature_from_payload / _line_signature_from_order: the sorted list
\* of (item_id, item_name_free, maker, quantity, note).  The sort key covers
\* every component of the tuple, so two sorted lists are equal exactly when
\* the tuples form the same multiset: the signature is kept as a bag.
RECURSIVE BagOfSeq(_)
BagOfSeq(s) == IF s = <<>> THEN EmptyBag ELSE SetToBag({Head(s)}) (+) BagOfSeq(Tail(s))

SigTuple(l) == <<l.item_id, Strip(l.item_name_free), Strip(l.maker), l.quantity, Strip(l.note)>>

_line_signature_from_payload(normalized) ==
    BagOfSeq([k \in 1..Len(normalized) |-> SigTuple(normalized[k])])

_line_signature_from_order(o) ==
    LET ids == SortedSeq(OrderLineIds(o)) IN
    BagOfSeq([k \in 1..Len(ids) |-> SigTuple(lines[ids[k]])])

\* _find_recent_duplicate_order: the most recently created order of the same
\* supplier, department and user, created at or after the cutoff and not
\* CANCELLED, whose signature equals the payload's; None when there is none.
_find_recent_duplicate_order(supplier_id, department, ordered_by_user, normalized) ==
    LET window_seconds == DEFAULT_DUPLICATE_WINDOW_SECONDS
        cutoff == now - window_seconds
        candidates == {o \in DOMAIN orders :
            /\ orders[o].supplier_id = supplier_id
            /\ orders[o].department = department
            /\ orders[o].ordered_by_user = ordered_by_user
            /\ orders[o].created_at >= cutoff
            /\ orders[o].status # "CANCELLED"
            /\ _line_signature_from_order(o) = _line_signature_from_payload(normalized)}
    IN IF candidates = {} THEN NULL
       ELSE CHOOSE o \in candidates :
              \A p \in candidates :
                 \/ orders[p].created_at < orders[o].created_at
                 \/ (orders[p].created_at = orders[o].created_at /\ o <= p)

\* _allocate_reusable_order_id: the scan of the existing ids in ascending order.
RECURSIVE AllocScan(_, _)
AllocScan(ids, expected) ==
    IF ids = <<>> THEN expected
    ELSE IF Head(ids) = expected THEN AllocScan(Tail(ids), expected + 1)
    ELSE IF Head(ids) > expected THEN expected
    ELSE AllocScan(Tail(ids), expected)

_allocate_reusable_order_id_Increment ==
    IF DOMAIN orders = {} THEN 1 ELSE Max(DOMAIN orders) + 1
_allocate_reusable_order_id == AllocScan(SortedSeq(DOMAIN orders), 1)

\* purchase_order_lines.id is an INTEGER PRIMARY KEY: SQLite hands out the
\* largest existing id plus one.
NextLineId == IF DOMAIN lines = {} THEN 1 ELSE Max(DOMAIN lines) + 1

\* create_order, "len(supplier_ids) != 1" negated.
SingleSupplier_Any(supplier_ids) == TRUE
SingleSupplier(supplier_ids) == Cardinality(supplier_ids) = 1

\* create_order as a function of the database: what it returns and the
\* tables it leaves behind.
create_order(payload, ordered_by_user, department, supplier_id_for_free_lines) ==
    LET same == [ok |-> FALSE, err |-> "", order_id |-> NULL, reused |-> FALSE,
                 orders |-> orders, lines |-> lines, requests |-> requests]
        acc0 == [err |-> "", supplier_ids |-> {}, normalized |-> <<>>,
                 resolved_department |-> Strip(department)]
        acc == NormalizeLines(payload, acc0)
        supplier_ids ==
            IF acc.supplier_ids = {} /\ supplier_id_for_free_lines # NULL
            THEN {supplier_id_for_free_lines} ELSE acc.supplier_ids
    IN
    IF payload = <<>> THEN [same EXCEPT !.err = "EmptyLines"]
    ELSE IF acc.err # "" THEN [same EXCEPT !.err = acc.err]
    ELSE IF supplier_ids = {} THEN [same EXCEPT !.err = "NoSupplier"]
    ELSE IF ~SingleSupplier(supplier_ids) THEN [same EXCEPT !.err = "MixedSupplier"]
    ELSE
    LET supplier_id == CHOOSE s \in supplier_ids : TRUE
        normalized_user == Strip(ordered_by_user)
        duplicate == _find_recent_duplicate_order(
                        supplier_id, acc.resolved_department, normalized_user, acc.normalized)
        id == _allocate_reusable_order_id
        first == NextLineId
        n == Len(acc.normalized)
        new_line(k) ==
            [purchase_order_id |-> id,
             item_id |-> acc.normalized[k].item_id,
             item_name_free |-> acc.normalized[k].item_name_free,
             maker |-> acc.normalized[k].maker,
             quantity |-> acc.normalized[k].quantity,
             received_quantity |-> 0,
             vendor_reply_due_date |-> NULL,
             note |-> acc.normalized[k].note]
        linked == {k \in 1..n : acc.normalized[k].unmanaged_request_id # NULL}
        line_of(r) == first - 1 +
            Max({k \in linked : acc.normalized[k].unmanaged_request_id = r})
    IN
    IF supplier_id \notin Suppliers THEN [same EXCEPT !.err = "SupplierNotFound"]
    ELSE IF duplicate # NULL
    THEN [same EXCEPT !.ok = TRUE, !.order_id = duplicate, !.reused = TRUE]
    ELSE
    [ok |-> TRUE, err |-> "", order_id |-> id, reused |-> FALSE,
     orders |-> (id :> [supplier_id |-> supplier_id,
                        department |-> acc.resolved_department,
                        ordered_by_user |-> normalized_user,
                        status |-> "DRAFT",
                        issued_date |-> NULL,
                        created_at |-> now]) @@ orders,
     lines |-> [l \in DOMAIN lines \cup (first..(first + n - 1)) |->
                  IF l \in DOMAIN lines THEN lines[l] ELSE new_line(l - first + 1)],
     requests |-> [r \in Requests |->
        IF \E k \in linked : acc.normalized[k].unmanaged_request_id = r
        THEN [status |-> "CONVERTED", purchase_order_id |-> id,
              purchase_order_line_id |-> line_of(r),
              staged_supplier_id |-> NULL, staged_at |-> NULL]
        ELSE requests[r]]]

\* The bounds of the model: a call that adds rows is taken only while the
\* tables stay within them.
WithinBounds(res) ==
    /\ Cardinality(DOMAIN res.orders) <= MaxOrders
    /\ \A l \in DOMAIN res.lines : l <= MaxLineId

\* POST /purchase-orders: create_order without supplier_id_for_free_lines.
CreateOrder(payload, ordered_by_user, department) ==
    LET res == create_order(payload, ordered_by_user, department, NULL)
        call == [NoCall EXCEPT !.op = "create_order", !.ok = res.ok, !.err = res.err,
                    !.order_id = res.order_id, !.reused = res.reused,
                    !.payload = IF res.ok THEN <<payload, ordered_by_user, department>>
                                ELSE <<>>]
    IN
    /\ WithinBounds(res)
    /\ orders' = res.orders
    /\ lines' = res.lines
    /\ requests' = res.requests
    /\ last' = call
    /\ UNCHANGED <<on_hand, ledger, results, item_suppliers, price_history, documents, nas_files, email_logs, now, inflight>>

\* ------------------------------------------- build_low_stock_candidates
\* confirmed_or_later: the order statuses that keep an item off the list.
ExcludingStatuses_WithDraft == {"DRAFT", "CONFIRMED", "SENT", "WAITING"}
ExcludingStatuses == {"CONFIRMED", "SENT", "WAITING"}

\* build_low_stock_candidates: the items listed, in item order.
build_low_stock_candidates(department) ==
    LET selected_department == Strip(department)
        excluded_item_ids ==
            {lines[l].item_id : l \in {x \in DOMAIN lines :
                /\ orders[lines[x].purchase_order_id].status \in ExcludingStatuses
                /\ lines[x].item_id # NULL}}
        keeps(i) ==
            /\ i \notin excluded_item_ids
            /\ ~(ItemReorderPoint(i) <= 0)
            /\ ~(on_hand[i] > ItemReorderPoint(i))
            /\ ~(selected_department # "" /\ Strip(ItemDepartment(i)) # selected_department)
    IN SortedSeq({i \in Items : keeps(i)})

\* main.py orders_page (the candidate screen): the list is returned and the
\* database is left alone.
LowStockCandidates(department) ==
    /\ last' = [NoCall EXCEPT !.op = "low_stock",
                    !.payload = <<department, build_low_stock_candidates(department)>>]
    /\ UNCHANGED <<db, now, inflight>>

\* ---------------------------------- create_bulk_orders_from_low_stock
\* Suppliers are named in id order; item.default_order_quantity is 1 and
\* requested_department is empty for every request.
ItemDefaultOrderQuantity(i) == 1
ReqDepartment(r) == ""
UnsetDepartment == "unset"

\* The keys of candidate_overrides: str(item_id) and "unmanaged_" + str(id).
ItemKey(i) == CASE i = 1 -> "1" [] OTHER -> "2"
ReqKey(r) == CASE r = 1 -> "unmanaged_1" [] OTHER -> "unmanaged_2"

\* build_low_stock_candidates, the "suppliers" list of an item as pairs
\* <<supplier, unit price>>: the item_suppliers rows, or else the item's own
\* supplier with the item's price, then every other supplier without a price.
CandidateSuppliers(i) ==
    LET rows == {s \in Suppliers : <<i, s>> \in DOMAIN item_suppliers}
        registered ==
            IF rows # {} THEN {<<s, item_suppliers[<<i, s>>]>> : s \in rows}
            ELSE IF ItemSupplierId(i) # NULL THEN {<<ItemSupplierId(i), ItemUnitPrice(i)>>}
            ELSE {}
        registered_ids == {x[1] : x \in registered}
    IN registered \cup {<<s, NULL>> : s \in Suppliers \ registered_ids}

\* The sort key (unit price, None last; supplier name) and the first entry.
PriceKey(price) == IF price = NULL THEN 999999999 ELSE price
CheapestSupplier(i) ==
    CHOOSE x \in CandidateSuppliers(i) : \A y \in CandidateSuppliers(i) :
        \/ PriceKey(x[2]) < PriceKey(y[2])
        \/ (PriceKey(x[2]) = PriceKey(y[2]) /\ x[1] <= y[1])

\* build_order_candidates: the low-stock items, then the staged PENDING
\* requests in id order.
build_order_candidates(department) ==
    LET managed == build_low_stock_candidates(department)
        selected_department == Strip(department)
        staged == SortedSeq({r \in Requests :
                    /\ requests[r].status = "PENDING"
                    /\ requests[r].staged_supplier_id # NULL
                    /\ (selected_department # "" => ReqDepartment(r) = selected_department)})
    IN [k \in 1..Len(managed) |->
            [key |-> ItemKey(managed[k]), item_id |-> managed[k],
             unmanaged_request_id |-> NULL,
             supplier_id |-> CheapestSupplier(managed[k])[1],
             unit_price |-> CheapestSupplier(managed[k])[2],
             order_quantity |-> IF ItemDefaultOrderQuantity(managed[k]) > 1
                                THEN ItemDefaultOrderQuantity(managed[k]) ELSE 1,
             note |-> "",
             department |-> IF ItemDepartment(managed[k]) # ""
                            THEN ItemDepartment(managed[k]) ELSE UnsetDepartment]]
       \o
       [k \in 1..Len(staged) |->
            [key |-> ReqKey(staged[k]), item_id |-> NULL,
             unmanaged_request_id |-> staged[k],
             supplier_id |-> requests[staged[k]].staged_supplier_id,
             unit_price |-> IF ReqItemId(staged[k]) = NULL THEN NULL
                            ELSE LET hit == {x \in CandidateSuppliers(ReqItemId(staged[k])) :
                                                x[1] = requests[staged[k]].staged_supplier_id}
                                 IN IF hit = {} THEN NULL ELSE (CHOOSE x \in hit : TRUE)[2],
             order_quantity |-> ReqQuantity(staged[k]),
             note |-> ReqNote(staged[k]),
             department |-> ""]]

\* The supplier a candidate row is ordered from: the override's supplier_id
\* or else the row's own.
EffectiveSupplier(row, overrides) ==
    IF row.key \in DOMAIN overrides /\ overrides[row.key] # NULL
    THEN overrides[row.key] ELSE row.supplier_id

\* grouped: the suppliers in the order their first row appears.
RECURSIVE GroupOrder(_, _, _)
GroupOrder(rows, overrides, seen) ==
    IF rows = <<>> THEN seen
    ELSE LET sid == EffectiveSupplier(Head(rows), overrides) IN
         GroupOrder(Tail(rows), overrides,
            IF sid = NULL \/ sid = 0 \/ \E k \in DOMAIN seen : seen[k] = sid
            THEN seen ELSE Append(seen, sid))

\* The create_order line built from a candidate row: a row with an override
\* takes the override's quantity and note (absent here, so max(1, 0) and "").
BulkLine(row, overrides) ==
    LET sid == EffectiveSupplier(row, overrides)
        overridden == row.key \in DOMAIN overrides
        qty == IF overridden THEN 0 ELSE row.order_quantity
        unit_price == IF overridden THEN NULL ELSE row.unit_price
    IN RawLine(row.item_id, "", "", IF qty > 1 THEN qty ELSE 1,
               IF overridden THEN "" ELSE Strip(row.note), sid,
               IF unit_price # NULL THEN unit_price ELSE row.unit_price,
               row.unmanaged_request_id)

\* The calls of create_order the loop over grouped makes, in order.
BulkGroups(department, overrides) ==
    LET rows == build_order_candidates(department)
        order == GroupOrder(rows, overrides, <<>>)
        of(sid) == SelectSeq(rows, LAMBDA row : EffectiveSupplier(row, overrides) = sid)
    IN [k \in DOMAIN order |->
          [lines |-> [j \in DOMAIN of(order[k]) |-> BulkLine(of(order[k])[j], overrides)],
           department |-> IF of(order[k])[1].department # ""
                          THEN of(order[k])[1].department ELSE department]]

\* POST /purchase-orders/bulk-from-low-stock, up to the loop over grouped:
\* the candidates are read and grouped once.  create_order commits, so the
\* call goes on one supplier group at a time (BulkGroup); with nothing to
\* order it returns at once.
BulkBegin(w, ordered_by_user, department, overrides) ==
    LET groups == BulkGroups(department, overrides) IN
    /\ w \notin DOMAIN inflight
    /\ IF groups = <<>>
       THEN /\ last' = [NoCall EXCEPT !.op = "bulk"]
            /\ UNCHANGED inflight
       ELSE /\ inflight' = (w :> [op |-> "bulk", groups |-> groups,
                                   ordered_by_user |-> ordered_by_user,
                                   created_orders |-> <<>>]) @@ inflight
            /\ UNCHANGED last
    /\ UNCHANGED <<db, now>>

\* One turn of "for supplier_id, rows in grouped.items()": create_order for
\* the group, which commits or raises.  An error ends the call and leaves
\* what earlier turns committed; after the last group the call returns.
\* created_orders holds the <<order id, reused>> of every turn.
BulkGroup(w) ==
    /\ w \in DOMAIN inflight
    /\ inflight[w].op = "bulk"
    /\ LET call == [NoCall EXCEPT !.op = "bulk"]
           group == Head(inflight[w].groups)
           res == create_order(group.lines, inflight[w].ordered_by_user,
                               group.department, NULL)
           created_orders == Append(inflight[w].created_orders, <<res.order_id, res.reused>>)
           done == [x \in DOMAIN inflight \ {w} |-> inflight[x]]
       IN
       /\ WithinBounds(res)
       /\ orders' = res.orders
       /\ lines' = res.lines
       /\ requests' = res.requests
       /\ IF ~res.ok
          THEN /\ last' = Fail([call EXCEPT !.payload = inflight[w].created_orders], res.err)
               /\ inflight' = done
          ELSE IF Tail(inflight[w].groups) = <<>>
          THEN /\ last' = [call EXCEPT !.payload = created_orders]
               /\ inflight' = done
          ELSE /\ inflight' = [inflight EXCEPT ![w].groups = Tail(@),
                                               ![w].created_orders = created_orders]
               /\ UNCHANGED last
    /\ UNCHANGED <<on_hand, ledger, results, item_suppliers, price_history, documents, nas_files, email_logs, now>>

\* ---------------------------------------------------------- list_orders
\* _line_with_unit_price: the unit price shown for a line, the price of the
\* (item, supplier) row or else the item's own price; None for free text.
_line_with_unit_price(l, supplier_id) ==
    LET item == lines[l].item_id
        row_price == IF item # NULL /\ supplier_id # NULL /\ supplier_id # 0
                     THEN ItemSupplierPrice(item, supplier_id) ELSE NULL
    IN IF row_price # NULL THEN row_price
       ELSE IF item # NULL THEN ItemUnitPrice(item)
       ELSE NULL

\* order_by(PurchaseOrder.created_at.desc()): the newest order first; orders
\* created in the same second come in id order, as SQLite scans them.
RECURSIVE NewestFirst(_)
NewestFirst(S) ==
    IF S = {} THEN <<>>
    ELSE LET o == CHOOSE x \in S : \A y \in S :
                     \/ orders[y].created_at < orders[x].created_at
                     \/ (orders[y].created_at = orders[x].created_at /\ x <= y)
         IN <<o>> \o NewestFirst(S \ {o})

\* list_orders: the orders of a department that are not CANCELLED, each
\* with its lines in id order as <<line id, unit price>>.
list_orders(department) ==
    LET selected_department == Strip(department)
        shown == NewestFirst({o \in DOMAIN orders :
                    /\ orders[o].status # "CANCELLED"
                    /\ ~(selected_department # ""
                           /\ orders[o].department # selected_department)})
        view(o) == LET ids == SortedSeq(OrderLineIds(o)) IN
                   <<o, [k \in 1..Len(ids) |->
                            <<ids[k], _line_with_unit_price(ids[k], orders[o].supplier_id)>>]>>
    IN [k \in 1..Len(shown) |-> view(shown[k])]

\* main.py orders_page and load_pending_receipt_orders: the list is
\* returned and the database is left alone.
ListOrders(department) ==
    /\ last' = [NoCall EXCEPT !.op = "list_orders",
                    !.payload = <<department, list_orders(department)>>]
    /\ UNCHANGED <<db, now, inflight>>

\* --------------------------------------------- unmanaged request listing
\* tables.py UnmanagedOrderRequestStatus.
RequestStatuses == {"PENDING", "CONVERTED", "REJECTED"}

\* list_unmanaged_requests: the display status of a request row, from the
\* row's status and the order its purchase_order_id loads (has_order is
\* FALSE when the relationship loads nothing).  The branches are taken in
\* the order of the code.
display_status_NoReceived(status, has_order, order_status) ==
    IF status = "PENDING" THEN "unprocessed"
    ELSE IF status = "REJECTED" THEN "rejected"
    ELSE IF status = "CONVERTED" /\ has_order
    THEN IF order_status = "CANCELLED" THEN "order_cancelled" ELSE "ordered"
    ELSE IF status = "CONVERTED" /\ ~has_order THEN "order_cancelled"
    ELSE "ordered"
display_status(status, has_order, order_status) ==
    IF status = "PENDING" THEN "unprocessed"
    ELSE IF status = "REJECTED" THEN "rejected"
    ELSE IF status = "CONVERTED" /\ has_order
    THEN IF order_status = "RECEIVED" THEN "received"
         ELSE IF order_status = "CANCELLED" THEN "order_cancelled"
         ELSE "ordered"
    ELSE IF status = "CONVERTED" /\ ~has_order THEN "order_cancelled"
    ELSE "ordered"

\* order_by(requested_at.desc(), id.desc()): requests are registered in id
\* order, so the newest is the one with the largest id.
RECURSIVE LargestFirst(_)
LargestFirst(S) ==
    IF S = {} THEN <<>>
    ELSE LET m == CHOOSE x \in S : \A y \in S : y <= x
         IN <<m>> \o LargestFirst(S \ {m})

\* r.order: the order row the request's purchase_order_id refers to.
RequestHasOrder(r) == requests[r].purchase_order_id \in DOMAIN orders
RequestOrderStatus(r) ==
    IF RequestHasOrder(r) THEN orders[requests[r].purchase_order_id].status ELSE ""

\* The rows the query selects, newest first: every status with include_all,
\* the given status with a status_filter, the PENDING rows otherwise.
list_unmanaged_requests(status_filter, include_all, exclude_staged) ==
    LET selected == {r \in Requests :
                        /\ ~(exclude_staged /\ requests[r].staged_supplier_id # NULL)
                        /\ \/ include_all
                           \/ ~include_all /\ status_filter # "" /\ requests[r].status = status_filter
                           \/ ~include_all /\ status_filter = "" /\ requests[r].status = "PENDING"}
        shown == LargestFirst(selected)
        view(r) == [id |-> r,
                    status |-> requests[r].status,
                    display_status |-> display_status(requests[r].status, RequestHasOrder(r),
                                                       RequestOrderStatus(r)),
                    is_received |-> /\ requests[r].status = "CONVERTED"
                                    /\ RequestHasOrder(r)
                                    /\ RequestOrderStatus(r) = "RECEIVED",
                    purchase_order_id |-> requests[r].purchase_order_id]
    IN [k \in 1..Len(shown) |-> view(shown[k])]

\* The read leaves the database alone.
ListUnmanagedRequests(status_filter, include_all, exclude_staged) ==
    /\ last' = [NoCall EXCEPT !.op = "list_unmanaged_requests",
                    !.payload = list_unmanaged_requests(status_filter, include_all, exclude_staged)]
    /\ UNCHANGED <<db, now, inflight>>

\* ---------------------------------------------- unmanaged request staging
\* stage_unmanaged_requests: the query keeps the PENDING requests among the
\* given ids; the call fails unless it finds them all.
stage_unmanaged_requests(request_ids, supplier_id) ==
    LET call == [NoCall EXCEPT !.op = "stage"]
        found == {r \in request_ids \cap Requests : requests[r].status = "PENDING"}
    IN
    /\ IF request_ids = {} THEN last' = Fail(call, "EmptyRequestIds") /\ UNCHANGED db
       ELSE IF supplier_id \notin Suppliers
            THEN last' = Fail(call, "SupplierNotFound") /\ UNCHANGED db
       ELSE IF Cardinality(found) # Cardinality(request_ids)
            THEN last' = Fail(call, "NotEligible") /\ UNCHANGED db
       ELSE /\ requests' = [r \in Requests |->
                    IF r \in found
                    THEN [requests[r] EXCEPT !.staged_supplier_id = supplier_id,
                                             !.staged_at = now]
                    ELSE requests[r]]
            /\ last' = call
            /\ UNCHANGED <<orders, lines, on_hand, ledger, results, item_suppliers, price_history, documents, nas_files, email_logs>>
    /\ UNCHANGED <<now, inflight>>

\* convert_requests_to_order: builds one plain line per request (no
\* unmanaged_request_id, no supplier_id key), calls create_order with the
\* chosen supplier as supplier_id_for_free_lines, then links the requests to
\* the lines of the returned order in id order.  Staging fields are not touched.
ConvertLine(r) ==
    IF ReqItemId(r) # NULL
    THEN RawLine(ReqItemId(r), "",
                 IF ReqManufacturer(r) # "" THEN ReqManufacturer(r)
                 ELSE ItemManufacturer(ReqItemId(r)),
                 ReqQuantity(r), ReqNote(r), NULL, NULL, NULL)
    ELSE RawLine(NULL, ReqItemCodeFree(r), ReqManufacturer(r),
                 ReqQuantity(r), ReqNote(r), NULL, NULL, NULL)

convert_requests_to_order(request_ids, supplier_id, department, ordered_by_user) ==
    LET call == [NoCall EXCEPT !.op = "convert"]
        found == SortedSeq({r \in request_ids \cap Requests : requests[r].status = "PENDING"})
        payload == [k \in 1..Len(found) |-> ConvertLine(found[k])]
        res == create_order(payload, ordered_by_user, department, supplier_id)
        order_lines == SortedSeq({l \in DOMAIN res.lines :
                                    res.lines[l].purchase_order_id = res.order_id})
        zipped == 1..(IF Len(found) < Len(order_lines) THEN Len(found) ELSE Len(order_lines))
    IN
    /\ IF request_ids = {} THEN last' = Fail(call, "EmptyRequestIds") /\ UNCHANGED db
       ELSE IF Len(found) # Cardinality(request_ids)
            THEN last' = Fail(call, "NotEligible") /\ UNCHANGED db
       ELSE IF ~res.ok THEN last' = Fail(call, res.err) /\ UNCHANGED db
       ELSE /\ WithinBounds(res)
            /\ orders' = res.orders
            /\ lines' = res.lines
            /\ requests' = [r \in Requests |->
                    IF \E k \in zipped : found[k] = r
                    THEN [res.requests[r] EXCEPT
                            !.status = "CONVERTED",
                            !.purchase_order_id = res.order_id,
                            !.purchase_order_line_id =
                                order_lines[CHOOSE k \in zipped : found[k] = r]]
                    ELSE res.requests[r]]
            /\ last' = [call EXCEPT !.order_id = res.order_id, !.reused = res.reused]
            /\ UNCHANGED <<on_hand, ledger, results, item_suppliers, price_history, documents, nas_files, email_logs>>
    /\ UNCHANGED <<now, inflight>>

\* ------------------------------------------------- update_order_status
Allowed_Loose(status) ==
    CASE status = "DRAFT" -> {"CONFIRMED", "SENT", "CANCELLED"}
      [] status = "CONFIRMED" -> {"SENT", "CANCELLED"}
      [] status = "SENT" -> {"WAITING", "CANCELLED"}
      [] status = "WAITING" -> {"RECEIVED", "CANCELLED"}
      [] OTHER -> {}
Allowed(status) ==
    CASE status = "DRAFT" -> {"CONFIRMED", "CANCELLED"}
      [] status = "CONFIRMED" -> {"SENT", "CANCELLED"}
      [] status = "SENT" -> {"WAITING", "CANCELLED"}
      [] status = "WAITING" -> {"RECEIVED", "CANCELLED"}
      [] OTHER -> {}

\* _apply_receipt_inventory, the body of "for line in order.lines": st holds
\* the lines, the stock and the ledger of the session.
ApplyReceiptLine_NoTx(o, l, st) ==
    LET ordered == st.lines[l].quantity
        received == IF st.lines[l].received_quantity > 0
                    THEN st.lines[l].received_quantity ELSE 0
        remaining == IF ordered - received > 0 THEN ordered - received ELSE 0
        item == st.lines[l].item_id
        marked == [st EXCEPT !.lines[l].received_quantity = received + remaining]
    IN
    IF remaining <= 0 THEN st
    ELSE IF item = NULL \/ item = 0 THEN marked
    ELSE [marked EXCEPT !.on_hand[item] = @ + remaining]
ApplyReceiptLine(o, l, st) ==
    LET ordered == st.lines[l].quantity
        received == IF st.lines[l].received_quantity > 0
                    THEN st.lines[l].received_quantity ELSE 0
        remaining == IF ordered - received > 0 THEN ordered - received ELSE 0
        item == st.lines[l].item_id
        marked == [st EXCEPT !.lines[l].received_quantity = received + remaining]
    IN
    IF remaining <= 0 THEN st
    ELSE IF item = NULL \/ item = 0 THEN marked
    ELSE [marked EXCEPT
            !.on_hand[item] = @ + remaining,
            !.ledger = Append(@, Tx(item, "receipt", remaining, o, NULL))]

RECURSIVE ApplyReceiptLoop(_, _, _)
ApplyReceiptLoop(o, ids, st) ==
    IF ids = <<>> THEN st
    ELSE ApplyReceiptLoop(o, Tail(ids), ApplyReceiptLine(o, Head(ids), st))

\* The requests linked to a cancelled order go back to PENDING with both
\* links cleared.  The first definition puts the status back and leaves the
\* links in place.
ReleaseRequests_StatusOnly(order_id) ==
    [r \in Requests |->
        IF requests[r].purchase_order_id = order_id
        THEN [requests[r] EXCEPT !.status = "PENDING"]
        ELSE requests[r]]
ReleaseRequests(order_id) ==
    [r \in Requests |->
        IF requests[r].purchase_order_id = order_id
        THEN [requests[r] EXCEPT !.status = "PENDING",
                                 !.purchase_order_id = NULL,
                                 !.purchase_order_line_id = NULL]
        ELSE requests[r]]

_apply_receipt_inventory(o) ==
    ApplyReceiptLoop(o, SortedSeq(OrderLineIds(o)),
                     [lines |-> lines, on_hand |-> on_hand, ledger |-> ledger])

update_order_status(order_id, target_status) ==
    LET call == [NoCall EXCEPT !.op = "update_order_status", !.order_id = order_id,
                    !.pre_status = IF order_id \in DOMAIN orders
                                   THEN orders[order_id].status ELSE ""]
        normalized == Upper(Strip(target_status))
    IN
    /\ IF order_id \notin DOMAIN orders
       THEN last' = Fail(call, "OrderNotFound") /\ UNCHANGED db
       ELSE IF normalized \notin Statuses
       THEN last' = Fail(call, "InvalidStatus") /\ UNCHANGED db
       ELSE IF normalized = orders[order_id].status
       THEN last' = call /\ UNCHANGED db
       ELSE IF normalized \notin Allowed(orders[order_id].status)
       THEN last' = Fail(call, "InvalidTransition") /\ UNCHANGED db
       ELSE IF normalized = "CANCELLED"
       THEN /\ requests' = ReleaseRequests(order_id)
            /\ orders' = [o \in DOMAIN orders \ {order_id} |-> orders[o]]
            /\ lines' = [l \in DOMAIN lines \ OrderLineIds(order_id) |-> lines[l]]
            /\ documents' = [o \in DOMAIN documents \ {order_id} |-> documents[o]]
            /\ email_logs' = SelectSeq(email_logs, LAMBDA e : e.purchase_order_id # order_id)
            /\ last' = call
            /\ UNCHANGED <<on_hand, ledger, results, item_suppliers, price_history, nas_files>>
       ELSE IF normalized = "RECEIVED"
       THEN LET st == _apply_receipt_inventory(order_id) IN
            /\ Len(st.ledger) <= MaxLog
            /\ lines' = st.lines
            /\ on_hand' = st.on_hand
            /\ ledger' = st.ledger
            /\ orders' = [orders EXCEPT ![order_id].status = normalized]
            /\ last' = call
            /\ UNCHANGED <<requests, results, item_suppliers, price_history, documents, nas_files, email_logs>>
       ELSE /\ orders' = [orders EXCEPT ![order_id].status = normalized]
            /\ last' = call
            /\ UNCHANGED <<lines, requests, on_hand, ledger, results, item_suppliers, price_history, documents, nas_files, email_logs>>
    /\ UNCHANGED <<now, inflight>>

\* date.fromisoformat on the dates used as inputs.
IsIsoDate(d) == d \in {"2026-02-01", "2026-03-01"}

\* The date a string parses to, as the number yyyymmdd.
fromisoformat(d) ==
    CASE d = "2026-02-01" -> 20260201 [] d = "2026-03-01" -> 20260301 [] OTHER -> NULL

\* ------------------------------------------------ update_reply_due_date
\* The statuses of an order whose lines take a reply due date.
ReplyStatuses_WithConfirmed == {"CONFIRMED", "SENT", "WAITING"}
ReplyStatuses == {"SENT", "WAITING"}

\* POST /purchase-order-lines/{line_id}/reply-due-date and
\* update_reply_due_date: the date is set on the line in the session before
\* the status is tested, and a failure leaves without commit.
update_reply_due_date(line_id, due_date) ==
    LET call == [NoCall EXCEPT !.op = "update_reply_due_date"]
        order_id == lines[line_id].purchase_order_id
        parsed_date == fromisoformat(due_date)
        staged == [lines EXCEPT ![line_id].vendor_reply_due_date = parsed_date]
    IN
    /\ IF ~IsIsoDate(due_date) THEN last' = Fail(call, "InvalidDate") /\ UNCHANGED db
       ELSE IF line_id \notin DOMAIN lines
       THEN last' = Fail(call, "LineNotFound") /\ UNCHANGED db
       ELSE IF orders[order_id].status \notin ReplyStatuses
       THEN /\ last' = Fail([call EXCEPT !.pre_status = orders[order_id].status],
                            "InvalidState")
            /\ UNCHANGED db
       ELSE /\ lines' = staged
            /\ orders' = [orders EXCEPT ![order_id].status =
                            IF @ = "SENT" THEN "WAITING" ELSE @]
            /\ last' = [call EXCEPT !.order_id = order_id,
                                    !.pre_status = orders[order_id].status,
                                    !.payload = <<line_id, parsed_date>>]
            /\ UNCHANGED <<requests, on_hand, ledger, results, item_suppliers, price_history, documents, nas_files, email_logs>>
    /\ UNCHANGED <<now, inflight>>

\* ------------------------------------------ generate_document, send_email
\* What the environment does to a call: nothing, or the PDF renderer, the
\* copy to the NAS, the keyring or the SMTP server fails.  The PDF of a
\* document row is taken to stay on the NAS while the row exists.
SendOutcomes == {"ok", "pdf_error", "nas_error", "no_password", "smtp_error"}

EmailLog(o, success) == [purchase_order_id |-> o, success |-> success]

\* date.today() as a day number of the clock.
SecondsPerDay == 86400
Today == now \div SecondsPerDay

\* generate_document, "if order.status == DRAFT: order.status = CONFIRMED".
ConfirmDraft(order_id, os) ==
    [os EXCEPT ![order_id].status = IF @ = "DRAFT" THEN "CONFIRMED" ELSE @]

\* A file name on the NAS: directory (department, supplier), order id, issued
\* date and version; version 1 is the name without a _v suffix.
PdfPath(order_id, issued, version) ==
    <<orders[order_id].department, orders[order_id].supplier_id, order_id, issued, version>>

\* _build_document_destination: the plain name, or on regenerate the first
\* _v2, _v3, ... name that is not on the NAS yet.
RECURSIVE FreeVersion(_, _, _)
FreeVersion(order_id, issued, version) ==
    IF PdfPath(order_id, issued, version) \notin nas_files THEN version
    ELSE FreeVersion(order_id, issued, version + 1)

_build_document_destination(order_id, issued, regenerate) ==
    IF ~regenerate THEN PdfPath(order_id, issued, 1)
    ELSE PdfPath(order_id, issued, FreeVersion(order_id, issued, 2))

\* "if order.document and not regenerate and Path(pdf_path).exists()".
ReuseDocument_Never(order_id, regenerate) == FALSE
ReuseDocument(order_id, regenerate) ==
    /\ order_id \in DOMAIN documents
    /\ ~regenerate
    /\ documents[order_id].pdf_path \in nas_files

\* generate_document as a function of the database and the NAS: what it
\* returns and what it has committed when it returns or raises.
generate_document(order_id, regenerate, env) ==
    LET same == [ok |-> FALSE, err |-> "", reused |-> FALSE, pdf_path |-> <<>>,
                 orders |-> orders, documents |-> documents,
                 nas_files |-> nas_files, email_logs |-> email_logs]
    IN
    IF order_id \notin DOMAIN orders THEN [same EXCEPT !.err = "OrderNotFound"]
    ELSE IF orders[order_id].status = "CANCELLED" THEN [same EXCEPT !.err = "InvalidState"]
    ELSE IF ReuseDocument(order_id, regenerate)
    THEN [same EXCEPT !.ok = TRUE, !.reused = TRUE,
                      !.pdf_path = documents[order_id].pdf_path,
                      !.orders = [ConfirmDraft(order_id, orders) EXCEPT
                                    ![order_id].issued_date = IF @ = NULL THEN Today ELSE @]]
    ELSE
    LET issued == IF orders[order_id].issued_date # NULL
                  THEN orders[order_id].issued_date ELSE Today
        destination_path == _build_document_destination(order_id, issued, regenerate)
    IN
    IF env = "pdf_error" THEN [same EXCEPT !.err = "PdfError"]
    ELSE IF env = "nas_error"
    THEN [same EXCEPT !.err = "NasError",
                      !.email_logs = Append(@, EmailLog(order_id, FALSE))]
    ELSE [same EXCEPT !.ok = TRUE, !.pdf_path = destination_path,
                      !.orders = [ConfirmDraft(order_id, orders) EXCEPT
                                    ![order_id].issued_date = issued],
                      !.nas_files = @ \cup {destination_path},
                      !.documents = (order_id :> [pdf_path |-> destination_path,
                                                  generated_at |-> now]) @@ @]

\* POST /purchase-orders/{order_id}/document.
GenerateDocument(order_id, regenerate, env) ==
    LET res == generate_document(order_id, regenerate, env)
        call == [NoCall EXCEPT !.op = "generate_document", !.order_id = order_id,
                    !.pre_status = IF order_id \in DOMAIN orders
                                   THEN orders[order_id].status ELSE "",
                    !.reused = res.reused, !.payload = res.pdf_path]
    IN
    /\ Len(res.email_logs) <= MaxLog
    /\ \A f \in res.nas_files : f[5] <= MaxVersion
    /\ orders' = res.orders
    /\ documents' = res.documents
    /\ nas_files' = res.nas_files
    /\ email_logs' = res.email_logs
    /\ last' = IF res.ok THEN call ELSE Fail(call, res.err)
    /\ UNCHANGED <<lines, requests, on_hand, ledger, results, item_suppliers, price_history, now, inflight>>

\* send_email, the loop over the catalog lines after the mail is sent: the
\* (item, supplier) pairs a price row is added for, one per line whose pair
\* the query does not find (SessionLocal has autoflush off, so a row added
\* for an earlier line is not found).
MissingPriceRows_None(order_id) == <<>>
MissingPriceRows(order_id) ==
    LET sid == orders[order_id].supplier_id
        ids == SortedSeq({l \in OrderLineIds(order_id) :
                            /\ lines[l].item_id # NULL
                            /\ <<lines[l].item_id, sid>> \notin DOMAIN item_suppliers})
    IN [k \in 1..Len(ids) |-> <<lines[ids[k]].item_id, sid>>]

\* The statuses send_email refuses.
SendRefusedStatuses_CancelledOnly == {"CANCELLED"}
SendRefusedStatuses == {"CANCELLED", "RECEIVED"}

send_email(order_id, regenerate, env) ==
    LET call == [NoCall EXCEPT !.op = "send_email", !.order_id = order_id,
                    !.pre_status = IF order_id \in DOMAIN orders
                                   THEN orders[order_id].status ELSE ""]
        same == [ok |-> TRUE, err |-> "", orders |-> orders, documents |-> documents,
                 nas_files |-> nas_files, email_logs |-> email_logs]
        doc == IF \/ regenerate
                  \/ order_id \notin DOMAIN documents
                  \/ documents[order_id].pdf_path \notin nas_files
               THEN generate_document(order_id, regenerate, env) ELSE same
        to_address == Strip(SupplierEmail(orders[order_id].supplier_id))
        added == MissingPriceRows(order_id)
        committed(logs) ==
            /\ Len(logs) <= MaxLog
            /\ orders' = doc.orders
            /\ \A f \in doc.nas_files : f[5] <= MaxVersion
            /\ documents' = doc.documents
            /\ nas_files' = doc.nas_files
            /\ email_logs' = logs
            /\ UNCHANGED item_suppliers
    IN
    /\ IF order_id \notin DOMAIN orders
       THEN last' = Fail(call, "OrderNotFound") /\ UNCHANGED db
       ELSE IF orders[order_id].status \in SendRefusedStatuses
       THEN last' = Fail(call, "InvalidState") /\ UNCHANGED db
       ELSE
       /\ IF ~doc.ok
          THEN last' = Fail(call, doc.err) /\ committed(doc.email_logs)
          ELSE IF to_address = ""
          THEN /\ last' = Fail(call, "NoRecipient")
               /\ committed(Append(doc.email_logs, EmailLog(order_id, FALSE)))
          ELSE IF env = "no_password"
          THEN last' = Fail(call, "NoPassword") /\ committed(doc.email_logs)
          ELSE IF env = "smtp_error"
          THEN /\ last' = Fail(call, "SmtpError")
               /\ committed(Append(doc.email_logs, EmailLog(order_id, FALSE)))
          ELSE IF \E j, k \in DOMAIN added : j # k /\ added[j] = added[k]
          THEN last' = Fail(call, "IntegrityError") /\ committed(doc.email_logs)
          ELSE /\ Len(doc.email_logs) < MaxLog
               /\ \A f \in doc.nas_files : f[5] <= MaxVersion
               /\ orders' = [doc.orders EXCEPT ![order_id].status = "WAITING"]
               /\ documents' = doc.documents
               /\ nas_files' = doc.nas_files
               /\ email_logs' = Append(doc.email_logs, EmailLog(order_id, TRUE))
               /\ item_suppliers' =
                     [key \in {added[k] : k \in DOMAIN added} |-> NULL] @@ item_suppliers
               /\ last' = call
       /\ UNCHANGED <<lines, requests, on_hand, ledger, results, price_history>>
    /\ UNCHANGED <<now, inflight>>

\* ----------------------------------------------- receive_order_partial
\* The statuses receive_order_partial accepts.
ReceivableStatuses_WithConfirmed == {"CONFIRMED", "SENT", "WAITING"}
ReceivableStatuses == {"SENT", "WAITING"}

\* The body of the first loop "for line in order.lines": st is the session
\* (lines, stock, ledger), the lines processed so far and the first error.
ReceiveLine_NoBalanceCheck(o, l, normalized_map, st) ==
    LET ordered == st.lines[l].quantity
        received == IF st.lines[l].received_quantity > 0
                    THEN st.lines[l].received_quantity ELSE 0
        remaining == IF ordered - received > 0 THEN ordered - received ELSE 0
        incoming == IF normalized_map # <<>> THEN normalized_map[l] ELSE remaining
        item == st.lines[l].item_id
        counted == [st EXCEPT !.lines[l].received_quantity = received + incoming,
                              !.processed = Append(@, <<l, incoming>>)]
    IN
    IF st.err # "" THEN st
    ELSE IF remaining <= 0 THEN st
    ELSE IF normalized_map # <<>> /\ l \notin DOMAIN normalized_map THEN st
    ELSE IF incoming <= 0 THEN st
    ELSE IF item = NULL \/ item = 0 THEN counted
    ELSE [counted EXCEPT
            !.on_hand[item] = @ + incoming,
            !.ledger = Append(@, Tx(item, "receipt", incoming, o, l))]
ReceiveLine(o, l, normalized_map, st) ==
    LET ordered == st.lines[l].quantity
        received == IF st.lines[l].received_quantity > 0
                    THEN st.lines[l].received_quantity ELSE 0
        remaining == IF ordered - received > 0 THEN ordered - received ELSE 0
        incoming == IF normalized_map # <<>> THEN normalized_map[l] ELSE remaining
        item == st.lines[l].item_id
        counted == [st EXCEPT !.lines[l].received_quantity = received + incoming,
                              !.processed = Append(@, <<l, incoming>>)]
    IN
    IF st.err # "" THEN st
    ELSE IF remaining <= 0 THEN st
    ELSE IF normalized_map # <<>> /\ l \notin DOMAIN normalized_map THEN st
    ELSE IF incoming <= 0 THEN st
    ELSE IF incoming > remaining THEN [st EXCEPT !.err = "OverReceipt"]
    ELSE IF item = NULL \/ item = 0 THEN counted
    ELSE [counted EXCEPT
            !.on_hand[item] = @ + incoming,
            !.ledger = Append(@, Tx(item, "receipt", incoming, o, l))]

RECURSIVE ReceiveLoop(_, _, _, _)
ReceiveLoop(o, ids, normalized_map, st) ==
    IF ids = <<>> THEN st
    ELSE ReceiveLoop(o, Tail(ids), normalized_map,
                     ReceiveLine(o, Head(ids), normalized_map, st))

PurchaseResultRow(o, l, item, incoming, unit_price) ==
    [source_order_id |-> o, source_line_id |-> l, item_id |-> item,
     supplier_id |-> orders[o].supplier_id, quantity |-> incoming,
     unit_price |-> unit_price,
     amount |-> IF unit_price # NULL THEN unit_price * incoming ELSE NULL,
     note |-> lines[l].note]

\* The body of the second loop "for line, incoming in processed_lines": pr
\* holds the price rows the session's queries see (visible), the price rows
\* added and not yet flushed (pending; SessionLocal has autoflush off), the
\* price history, the purchase results and the first error.
ResultLine(o, l, incoming, prices, pr) ==
    LET item == lines[l].item_id
        supplier == orders[o].supplier_id
        key == <<item, supplier>>
        has_row == key \in DOMAIN pr.visible
        row_price == IF has_row THEN pr.visible[key] ELSE NULL
        current_price == IF row_price # NULL THEN row_price ELSE ItemUnitPrice(item)
        override_price == IF l \in DOMAIN prices THEN prices[l] ELSE NULL
        changes == override_price # NULL /\ override_price # current_price
        unit_price == IF changes THEN override_price ELSE current_price
    IN
    IF pr.err # "" THEN pr
    ELSE IF item # NULL /\ item # 0 THEN
        [pr EXCEPT
            !.history = IF changes
                        THEN Append(@, [item_id |-> item, supplier_id |-> supplier,
                                        old_unit_price |-> current_price,
                                        new_unit_price |-> override_price,
                                        reference_id |-> l])
                        ELSE @,
            !.visible = IF changes /\ has_row THEN (key :> override_price) @@ @ ELSE @,
            !.err = IF changes /\ ~has_row /\ key \in DOMAIN pr.pending
                    THEN "IntegrityError" ELSE @,
            !.pending = IF changes /\ ~has_row THEN (key :> override_price) @@ @ ELSE @,
            !.results = Append(@, PurchaseResultRow(o, l, item, incoming, unit_price))]
    ELSE
        \* free-text line: the row is added and the session is flushed, which
        \* also writes the pending price rows.
        [pr EXCEPT
            !.visible = pr.pending @@ @,
            !.pending = <<>>,
            !.results = Append(@, PurchaseResultRow(o, l, NULL, incoming,
                                    IF l \in DOMAIN prices THEN prices[l] ELSE NULL))]

RECURSIVE ResultLoop(_, _, _, _)
ResultLoop(o, processed, prices, pr) ==
    IF processed = <<>> THEN pr
    ELSE ResultLoop(o, Tail(processed), prices,
                    ResultLine(o, Head(processed)[1], Head(processed)[2], prices, pr))

AllReceived_Any(o, ls) ==
    \E l \in {x \in DOMAIN ls : ls[x].purchase_order_id = o} :
        (IF ls[l].received_quantity > 0 THEN ls[l].received_quantity ELSE 0)
            >= (IF ls[l].quantity > 0 THEN ls[l].quantity ELSE 0)
AllReceived(o, ls) ==
    \A l \in {x \in DOMAIN ls : ls[x].purchase_order_id = o} :
        (IF ls[l].received_quantity > 0 THEN ls[l].received_quantity ELSE 0)
            >= (IF ls[l].quantity > 0 THEN ls[l].quantity ELSE 0)

\* receive_order_partial, "processed_count == 0": no line took a quantity.
NothingProcessed_Never(processed) == FALSE
NothingProcessed(processed) == Len(processed) = 0

receive_order_partial(order_id, line_receipts, delivery_date, delivery_note_number, line_unit_prices) ==
    LET call == [NoCall EXCEPT !.op = "receive_partial", !.order_id = order_id,
                    !.pre_status = IF order_id \in DOMAIN orders
                                   THEN orders[order_id].status ELSE ""]
        st == ReceiveLoop(order_id, SortedSeq(OrderLineIds(order_id)), line_receipts,
                          [lines |-> lines, on_hand |-> on_hand, ledger |-> ledger,
                           processed |-> <<>>, err |-> ""])
        pr == ResultLoop(order_id, st.processed, line_unit_prices,
                         [visible |-> item_suppliers, pending |-> <<>>,
                          history |-> price_history, results |-> results, err |-> ""])
    IN
    /\ IF order_id \notin DOMAIN orders
       THEN last' = Fail(call, "OrderNotFound") /\ UNCHANGED db
       ELSE IF orders[order_id].status = "CANCELLED"
       THEN last' = Fail(call, "InvalidState") /\ UNCHANGED db
       ELSE IF orders[order_id].status = "RECEIVED"
       THEN last' = Fail(call, "InvalidState") /\ UNCHANGED db
       ELSE IF orders[order_id].status \notin ReceivableStatuses
       THEN last' = Fail(call, "InvalidState") /\ UNCHANGED db
       ELSE IF Strip(delivery_date) = "" \/ ~IsIsoDate(Strip(delivery_date))
       THEN last' = Fail(call, "MissingDeliveryInfo") /\ UNCHANGED db
       ELSE IF Strip(delivery_note_number) = ""
       THEN last' = Fail(call, "MissingDeliveryInfo") /\ UNCHANGED db
       ELSE IF \E l \in DOMAIN line_receipts : line_receipts[l] < 0
       THEN last' = Fail(call, "InvalidQuantity") /\ UNCHANGED db
       ELSE IF DOMAIN line_receipts \ OrderLineIds(order_id) # {}
       THEN last' = Fail(call, "UnknownLine") /\ UNCHANGED db
       ELSE IF st.err # ""
       THEN last' = Fail(call, st.err) /\ UNCHANGED db
       ELSE IF NothingProcessed(st.processed)
       THEN last' = Fail(call, "NothingToReceive") /\ UNCHANGED db
       ELSE IF pr.err # ""
       THEN last' = Fail(call, pr.err) /\ UNCHANGED db
       ELSE /\ Len(st.ledger) <= MaxLog
            /\ Len(pr.results) <= MaxLog
            /\ lines' = st.lines
            /\ on_hand' = st.on_hand
            /\ ledger' = st.ledger
            /\ orders' = [orders EXCEPT ![order_id].status =
                            IF AllReceived(order_id, st.lines) THEN "RECEIVED" ELSE "WAITING"]
            /\ item_suppliers' = pr.pending @@ pr.visible
            /\ price_history' = pr.history
            /\ results' = pr.results
            /\ last' = [call EXCEPT !.line_receipts = line_receipts]
            /\ UNCHANGED <<requests, documents, nas_files, email_logs>>
    /\ UNCHANGED <<now, inflight>>

\* ------------------------------------------- purchase result correction
\* main.py update_purchase_result (PATCH /api/purchase-results/{id}).  The
\* payload is a record holding the fields the caller gives; a field left out
\* is None in PurchaseResultUpdatePayload and is not touched.  The row is
\* changed in the session and committed at the end; a handler that raises
\* stores nothing.  A note of None is written as the empty string.
Given(payload, field) == field \in DOMAIN payload

CorrectedRow(row, payload) ==
    [row EXCEPT
        !.supplier_id = IF Given(payload, "supplier_id") THEN payload.supplier_id ELSE @,
        !.quantity = IF Given(payload, "quantity") THEN payload.quantity ELSE @,
        !.unit_price = IF Given(payload, "unit_price")
                       THEN (IF payload.unit_price >= 0 THEN payload.unit_price ELSE NULL)
                       ELSE @,
        !.amount = IF Given(payload, "amount")
                   THEN (IF payload.amount >= 0 THEN payload.amount ELSE NULL)
                   ELSE @,
        !.note = IF Given(payload, "note") THEN Strip(payload.note) ELSE @]

update_purchase_result(result_id, payload) ==
    LET call == [NoCall EXCEPT !.op = "update_purchase_result",
                               !.payload = <<result_id, payload>>] IN
    /\ IF result_id \notin DOMAIN results
       THEN last' = Fail(call, "ResultNotFound") /\ UNCHANGED db
       ELSE IF Given(payload, "supplier_id") /\ payload.supplier_id \notin Suppliers
       THEN last' = Fail(call, "SupplierNotFound") /\ UNCHANGED db
       ELSE IF Given(payload, "quantity") /\ payload.quantity < 0
       THEN last' = Fail(call, "InvalidQuantity") /\ UNCHANGED db
       ELSE /\ results' = [results EXCEPT ![result_id] = CorrectedRow(@, payload)]
            /\ last' = call
            /\ UNCHANGED <<orders, lines, requests, on_hand, ledger, item_suppliers, price_history, documents, nas_files, email_logs>>
    /\ UNCHANGED <<now, inflight>>

\* Two requests served at the same time, each in its own session
\* (get_db: one SessionLocal per request, handlers run on a thread pool).
\* SELECT statements of a session take no lock on the SQLite file and open
\* no transaction; the session writes when it flushes at commit, one UPDATE
\* per changed row by primary key with the values computed from what it read.
Workers == {1, 2}

\* receive_order_partial up to the commit: the order, its lines and the
\* stock are read and every check is made; a call that fails ends here.
\* The session keeps the rows it changed and the rows it is going to insert.
ReceiveRead(w, order_id, line_receipts) ==
    LET call == [NoCall EXCEPT !.op = "receive_partial", !.order_id = order_id,
                    !.pre_status = IF order_id \in DOMAIN orders
                                   THEN orders[order_id].status ELSE ""]
        st == ReceiveLoop(order_id, SortedSeq(OrderLineIds(order_id)), line_receipts,
                          [lines |-> lines, on_hand |-> on_hand, ledger |-> <<>>,
                           processed |-> <<>>, err |-> ""])
        pr == ResultLoop(order_id, st.processed, <<>>,
                         [visible |-> item_suppliers, pending |-> <<>>,
                          history |-> <<>>, results |-> <<>>, err |-> ""])
    IN
    /\ w \notin DOMAIN inflight
    /\ IF order_id \notin DOMAIN orders
       THEN last' = Fail(call, "OrderNotFound") /\ UNCHANGED inflight
       ELSE IF orders[order_id].status \notin ReceivableStatuses
       THEN last' = Fail(call, "InvalidState") /\ UNCHANGED inflight
       ELSE IF \E l \in DOMAIN line_receipts : line_receipts[l] < 0
       THEN last' = Fail(call, "InvalidQuantity") /\ UNCHANGED inflight
       ELSE IF DOMAIN line_receipts \ OrderLineIds(order_id) # {}
       THEN last' = Fail(call, "UnknownLine") /\ UNCHANGED inflight
       ELSE IF st.err # ""
       THEN last' = Fail(call, st.err) /\ UNCHANGED inflight
       ELSE IF NothingProcessed(st.processed)
       THEN last' = Fail(call, "NothingToReceive") /\ UNCHANGED inflight
       ELSE /\ inflight' = (w :> [op |-> "receive_partial", call |-> call,
                                   line_receipts |-> line_receipts,
                                   lines |-> st.lines, on_hand |-> st.on_hand,
                                   ledger |-> st.ledger, processed |-> st.processed,
                                   results |-> pr.results]) @@ inflight
            /\ UNCHANGED last
    /\ UNCHANGED <<db, now>>

\* The flush and commit of a receive_order_partial session: the received
\* quantity of each processed line, the stock of each item received and the
\* order status are set to the session's values, the new rows are inserted.
ReceiveCommit(w) ==
    /\ w \in DOMAIN inflight
    /\ inflight[w].op = "receive_partial"
    /\ LET sess == inflight[w]
           order_id == sess.call.order_id
           touched == {sess.processed[k][1] : k \in DOMAIN sess.processed}
           items == {lines[l].item_id : l \in touched} \ {NULL}
       IN
       /\ Len(ledger) + Len(sess.ledger) <= MaxLog
       /\ Len(results) + Len(sess.results) <= MaxLog
       /\ lines' = [l \in DOMAIN lines |->
                       IF l \in touched
                       THEN [lines[l] EXCEPT !.received_quantity = sess.lines[l].received_quantity]
                       ELSE lines[l]]
       /\ on_hand' = [i \in Items |-> IF i \in items THEN sess.on_hand[i] ELSE on_hand[i]]
       /\ ledger' = ledger \o sess.ledger
       /\ results' = results \o sess.results
       /\ orders' = [orders EXCEPT ![order_id].status =
                       LET status == IF AllReceived(order_id, sess.lines)
                                     THEN "RECEIVED" ELSE "WAITING"
                       IN IF status # sess.call.pre_status THEN status ELSE @]
       /\ last' = [sess.call EXCEPT !.line_receipts = sess.line_receipts]
       /\ inflight' = [x \in DOMAIN inflight \ {w} |-> inflight[x]]
    /\ UNCHANGED <<requests, item_suppliers, price_history, documents, nas_files, email_logs, now>>

\* create_order up to the INSERT of the order: the payload is checked, the
\* duplicate search is made and the lowest unused id is computed from the
\* orders the session sees; a call that fails or reuses an order ends here.
\* The session keeps the rows it is going to insert.
CreateRead(w, payload, ordered_by_user, department) ==
    LET res == create_order(payload, ordered_by_user, department, NULL)
        call == [NoCall EXCEPT !.op = "create_order", !.ok = res.ok, !.err = res.err,
                    !.order_id = res.order_id, !.reused = res.reused,
                    !.payload = IF res.ok THEN <<payload, ordered_by_user, department>>
                                ELSE <<>>]
        new_lines == SortedSeq(DOMAIN res.lines \ DOMAIN lines)
    IN
    /\ w \notin DOMAIN inflight
    /\ IF ~res.ok \/ res.reused
       THEN last' = call /\ UNCHANGED inflight
       ELSE /\ inflight' = (w :> [op |-> "create_order", call |-> call,
                                   id |-> res.order_id,
                                   order |-> res.orders[res.order_id],
                                   lines |-> [k \in 1..Len(new_lines) |-> res.lines[new_lines[k]]],
                                   converted |-> [r \in {x \in Requests : res.requests[x] # requests[x]} |->
                                                    res.requests[r].purchase_order_line_id
                                                       - new_lines[1] + 1]]) @@ inflight
            /\ UNCHANGED last
    /\ UNCHANGED <<db, now>>

\* The INSERT statements and the commit of a create_order session.  The
\* order is inserted with the id the session computed: when an order with
\* that id has been committed in the meantime the INSERT violates the
\* primary key, IntegrityError is raised and nothing is stored.  The line
\* ids are handed out by SQLite at the INSERT.
CreateCommit(w) ==
    /\ w \in DOMAIN inflight
    /\ inflight[w].op = "create_order"
    /\ LET sess == inflight[w]
           first == NextLineId
           n == Len(sess.lines)
       IN
       /\ IF sess.id \in DOMAIN orders
          THEN last' = Fail(sess.call, "IntegrityError") /\ UNCHANGED db
          ELSE /\ Cardinality(DOMAIN orders) < MaxOrders
               /\ first + n - 1 <= MaxLineId
               /\ orders' = (sess.id :> [sess.order EXCEPT !.created_at = now]) @@ orders
               /\ lines' = [l \in DOMAIN lines \cup (first..(first + n - 1)) |->
                              IF l \in DOMAIN lines THEN lines[l]
                              ELSE sess.lines[l - first + 1]]
               /\ requests' = [r \in Requests |->
                      IF r \in DOMAIN sess.converted
                      THEN [status |-> "CONVERTED", purchase_order_id |-> sess.id,
                            purchase_order_line_id |-> first - 1 + sess.converted[r],
                            staged_supplier_id |-> NULL, staged_at |-> NULL]
                      ELSE requests[r]]
               /\ last' = sess.call
               /\ UNCHANGED <<on_hand, ledger, results, item_suppliers, price_history, documents, nas_files, email_logs>>
       /\ inflight' = [x \in DOMAIN inflight \ {w} |-> inflight[x]]
    /\ UNCHANGED now

\* The clock advances between requests; no call is made.
Tick(d) ==
    /\ now + d <= MaxTime
    /\ now' = now + d
    /\ UNCHANGED <<db, inflight, last>>

\* ------------------------------------------------------ specifications
Qtys == 1..MaxQty
OrderIds == 1..MaxOrders
LineIds == 1..MaxLineId
DeliveryDate == "2026-02-01"
DeliveryNote == "DN-1"

\* Line receipts: a quantity for some of the given lines; the empty map is
\* line_receipts=None.
ReceiptMaps(ids, qs) == UNION {[D -> qs] : D \in SUBSET ids}

CatalogLine(i, q, sup) == RawLine(i, "", "", q, "", sup, NULL, NULL)
FreeLine(name, q) == RawLine(NULL, name, "", q, "", NULL, NULL, NULL)
RequestLine(r) == RawLine(NULL, "", "", 0, "", NULL, NULL, r)

\* Inventory ledger: every stock movement, manual or by an order.
InvPayloads == {<<CatalogLine(1, MaxQty, NULL)>>}

NextInv ==
    \/ \E i \in Items : api_inventory_issue(i, 1)
    \/ \E i \in Items : api_inventory_receipt(i, MaxQty)
    \/ \E i \in Items, d \in {0 - 1, 1} : api_inventory_adjustment(i, d)
    \/ \E i \in Items, d \in {0 - MaxQty, 1} : inventory_adjust(i, d)
    \/ \E i \in Items, t \in {0, MaxQty} : inventory_inline_adjust(i, t)
    \/ \E p \in InvPayloads : CreateOrder(p, "U", "")
    \/ \E o \in DOMAIN orders : \E t \in Allowed(orders[o].status) \ {"CANCELLED"} :
          update_order_status(o, t)
    \/ \E o \in DOMAIN orders : \E m \in ReceiptMaps(OrderLineIds(o), Qtys) :
          /\ orders[o].status \in {"SENT", "WAITING"}
          /\ receive_order_partial(o, m, DeliveryDate, DeliveryNote, <<>>)

SpecInv == Init /\ [][NextInv]_vars

\* Receiving: orders with catalog and free-text lines, taken through the
\* status machine and received in parts.
RecvPayloads ==
    {<<CatalogLine(1, MaxQty, NULL)>>,
     <<CatalogLine(1, MaxQty, NULL), FreeLine("X", MaxQty)>>,
     <<CatalogLine(2, 1, 1), CatalogLine(1, 1, NULL)>>}

NextRecv ==
    \/ \E p \in RecvPayloads : CreateOrder(p, "U", "")
    \/ \E o \in OrderIds, t \in (Statuses \ {"CANCELLED"}) \cup {"sent"} :
          update_order_status(o, t)
    \/ \E o \in OrderIds : \E m \in ReceiptMaps(OrderLineIds(o), 0..(MaxQty + 1)) :
          receive_order_partial(o, m, DeliveryDate, DeliveryNote, <<>>)
    \/ \E o \in DOMAIN orders : \E l \in LineIds \ OrderLineIds(o) :
          receive_order_partial(o, (l :> 1), DeliveryDate, DeliveryNote, <<>>)
    \/ \E o \in DOMAIN orders : \E l \in OrderLineIds(o) :
          receive_order_partial(o, (l :> (0 - 2)), DeliveryDate, DeliveryNote, <<>>)
    \/ \E o \in DOMAIN orders, d \in {DeliveryDate, "", "bad"}, n \in {DeliveryNote, " "} :
          receive_order_partial(o, <<>>, d, n, <<>>)

SpecRecv == Init /\ [][NextRecv]_vars

StatusPayloads ==
    {<<CatalogLine(1, MaxQty, NULL), FreeLine("X", 1)>>,
     <<CatalogLine(2, 1, 1)>>}

NextStatus ==
    \/ \E p \in StatusPayloads : CreateOrder(p, "U", "")
    \/ \E o \in OrderIds, t \in Statuses \cup {"cancelled", "BOGUS"} :
          update_order_status(o, t)
    \/ \E o \in DOMAIN orders :
          \E m \in ReceiptMaps(OrderLineIds(o), {1, MaxQty + 1}) :
             receive_order_partial(o, m, DeliveryDate, DeliveryNote, <<>>)

SpecStatus == Init /\ [][NextStatus]_vars

\* Order creation: payloads of one supplier, of two suppliers, with a
\* supplier chosen on the line, with a free-text line, with request lines,
\* and payloads create_order refuses.
CreatePayloads ==
    {<<CatalogLine(1, 1, NULL)>>,
     <<CatalogLine(1, 1, NULL), CatalogLine(2, 1, 2)>>,
     <<CatalogLine(2, 1, 1), CatalogLine(1, MaxQty, NULL)>>,
     <<CatalogLine(1, 1, 2), FreeLine(" X", 1)>>,
     <<RequestLine(2), CatalogLine(1, 1, NULL)>>,
     <<RequestLine(1), CatalogLine(2, 1, 2)>>,
     <<>>,
     <<FreeLine("X", 1)>>,
     <<CatalogLine(2, 1, NULL)>>}
CreateDepartments == {""}

NextCreate ==
    \/ \E p \in CreatePayloads, d \in CreateDepartments : CreateOrder(p, "U", d)
    \/ \E ids \in SUBSET StagingRequests, s \in Suppliers : stage_unmanaged_requests(ids, s)
    \/ \E o \in DOMAIN orders : update_order_status(o, "CANCELLED")

SpecCreate == Init /\ [][NextCreate]_vars

\* Duplicate suppression: the same call repeated at once, at the last second
\* of the window and one second after it.
TickSteps == {DEFAULT_DUPLICATE_WINDOW_SECONDS, DEFAULT_DUPLICATE_WINDOW_SECONDS + 1}
DupCalls ==
    {<<<<CatalogLine(1, 1, NULL)>>, "U", "">>,
     <<<<CatalogLine(1, 1, NULL)>>, "V", "">>,
     <<<<CatalogLine(1, 1, NULL), FreeLine("X", 1)>>, "U", "">>,
     <<<<FreeLine(" X", 1), CatalogLine(1, 1, NULL)>>, "U", "">>,
     <<<<RequestLine(1)>>, "U", "">>}

NextDup ==
    \/ \E c \in DupCalls : CreateOrder(c[1], c[2], c[3])
    \/ \E d \in TickSteps : Tick(d)
    \/ stage_unmanaged_requests({1}, 1)
    \/ \E o \in DOMAIN orders : update_order_status(o, "CANCELLED")

SpecDup == Init /\ [][NextDup]_vars

\* Unmanaged requests: staged, ordered through create_order or through
\* convert_requests_to_order, and released by a cancellation.
ReqPayloads == {<<RequestLine(1)>>, <<RequestLine(1), RequestLine(2)>>}

NextReq ==
    \/ \E ids \in SUBSET StagingRequests, s \in Suppliers : stage_unmanaged_requests(ids, s)
    \/ \E p \in ReqPayloads : CreateOrder(p, "U", "")
    \/ \E ids \in SUBSET StagingRequests, s \in Suppliers :
          convert_requests_to_order(ids, s, "", "U")
    \/ \E o \in OrderIds, t \in {"CONFIRMED", "SENT", "CANCELLED"} :
          update_order_status(o, t)

SpecReq == Init /\ [][NextReq]_vars

\* Request lines on the candidate screen: staged requests ordered next to
\* plain orders for the same item, with and without a department chosen.
LinkPayloads ==
    {<<CatalogLine(1, 1, NULL)>>,
     <<RequestLine(1)>>,
     <<RequestLine(2), CatalogLine(1, 1, NULL)>>,
     <<RequestLine(1), RequestLine(2)>>,
     <<FreeLine("X", 1), CatalogLine(1, 1, NULL)>>}
LinkDepartments == {"", "A"}

NextLink ==
    \/ \E ids \in SUBSET StagingRequests, s \in Suppliers : stage_unmanaged_requests(ids, s)
    \/ \E p \in LinkPayloads, d \in LinkDepartments : CreateOrder(p, "U", d)
    \/ \E ids \in SUBSET StagingRequests, s \in Suppliers, d \in LinkDepartments :
          convert_requests_to_order(ids, s, d, "U")
    \/ \E o \in DOMAIN orders : update_order_status(o, "CANCELLED")

SpecLink == Init /\ [][NextLink]_vars

\* Reorder candidates: stock moved around the reorder point while orders
\* for the item go through the status machine.
CandPayloads == {<<CatalogLine(1, 1, NULL)>>, <<CatalogLine(1, MaxQty, NULL), FreeLine("X", 1)>>}
CandDepartments == {"", " ", "A", "B"}

NextCand ==
    \/ \E d \in CandDepartments : LowStockCandidates(d)
    \/ \E p \in CandPayloads : CreateOrder(p, "U", "")
    \/ \E o \in DOMAIN orders, t \in Statuses : update_order_status(o, t)
    \/ \E i \in Items, q \in Qtys : api_inventory_receipt(i, q)
    \/ \E i \in Items : api_inventory_issue(i, 1)

SpecCand == Init /\ [][NextCand]_vars

\* Sending: orders for the supplier with an address and for the one
\* without, documents generated, every failure of the
\* environment, and receipts that set prices.
SendPayloads ==
    {<<CatalogLine(1, 1, NULL)>>,
     <<CatalogLine(2, 1, 1), CatalogLine(1, 1, NULL)>>,
     <<CatalogLine(1, 1, 2), FreeLine("X", 1)>>}
OverridePrice == 7

NextSend ==
    \/ \E p \in SendPayloads : CreateOrder(p, "U", "")
    \/ \E o \in OrderIds, env \in SendOutcomes : send_email(o, FALSE, env)
    \/ \E o \in DOMAIN orders, env \in {"ok", "nas_error"} : GenerateDocument(o, FALSE, env)
    \/ \E o \in DOMAIN orders, t \in {"CONFIRMED", "SENT"} : update_order_status(o, t)
    \/ \E o \in DOMAIN orders : \E l \in OrderLineIds(o) :
          receive_order_partial(o, <<>>, DeliveryDate, DeliveryNote, (l :> OverridePrice))

SpecSend == Init /\ [][NextSend]_vars

\* Unit prices: orders with two lines of one item, with an item without a
\* price of its own and with a free-text line, sent (which adds the empty
\* price rows) or moved to SENT by hand, received with and without price
\* overrides, and listed.
PriceLine(i, price) == RawLine(i, "", "", 1, "", NULL, price, NULL)
PricePayloads ==
    {<<CatalogLine(1, 1, NULL), CatalogLine(1, 1, NULL)>>,
     <<CatalogLine(2, 1, 1), FreeLine("X", 1)>>,
     <<PriceLine(1, OverridePrice)>>}
PriceOverrides(ids) == UNION {[D -> {ItemUnitPrice(1), OverridePrice}] : D \in SUBSET ids}

NextPrice ==
    \/ \E p \in PricePayloads : CreateOrder(p, "U", "")
    \/ \E o \in DOMAIN orders : send_email(o, FALSE, "ok")
    \/ \E o \in DOMAIN orders, t \in {"CONFIRMED", "SENT"} : update_order_status(o, t)
    \/ \E o \in DOMAIN orders : \E prices \in PriceOverrides(OrderLineIds(o)) :
          receive_order_partial(o, <<>>, DeliveryDate, DeliveryNote, prices)
    \/ ListOrders("")

SpecPrice == Init /\ [][NextPrice]_vars

\* Documents: generated, generated again and regenerated for orders in every
\* status before RECEIVED, with the renderer or the NAS failing, while the
\* clock advances.
DocPayloads == {<<CatalogLine(1, 1, NULL)>>}
DocStatuses == {"CONFIRMED", "SENT", "WAITING"}
DocOutcomes == {"ok", "pdf_error", "nas_error"}

NextDoc ==
    \/ \E p \in DocPayloads : CreateOrder(p, "U", "")
    \/ \E o \in OrderIds, r \in BOOLEAN, env \in DocOutcomes : GenerateDocument(o, r, env)
    \/ \E o \in DOMAIN orders, t \in DocStatuses : update_order_status(o, t)
    \/ Tick(DEFAULT_DUPLICATE_WINDOW_SECONDS + 1)

SpecDoc == Init /\ [][NextDoc]_vars

\* Reply due dates: recorded on lines of orders in every status, on lines
\* that do not exist and with dates that do not parse.
ReplyPayloads == {<<CatalogLine(1, 1, NULL), FreeLine("X", 1)>>}
ReplyDates == {"2026-02-01", "2026-03-01", "bad"}

NextReply ==
    \/ \E p \in ReplyPayloads : CreateOrder(p, "U", "")
    \/ \E o \in DOMAIN orders, t \in Statuses \ {"CANCELLED"} : update_order_status(o, t)
    \/ \E l \in LineIds, d \in ReplyDates : update_reply_due_date(l, d)
    \/ Tick(DEFAULT_DUPLICATE_WINDOW_SECONDS + 1)

SpecReply == Init /\ [][NextReply]_vars

\* Bulk ordering: the low-stock item and staged requests ordered in one
\* call, with the supplier of a candidate changed on the screen to the
\* other supplier or to one that does not exist.  No other request is
\* served while the call runs.
BulkWorker == 1
UnknownSupplier == Cardinality(Suppliers) + 1
BulkOverrides ==
    {<<>>, ("unmanaged_2" :> UnknownSupplier), ("unmanaged_2" :> 2), ("1" :> UnknownSupplier)}

NextBulk ==
    \/ \E o \in BulkOverrides : BulkBegin(BulkWorker, "U", "", o)
    \/ BulkGroup(BulkWorker)
    \/ /\ inflight = <<>>
       /\ \/ \E ids \in SUBSET StagingRequests, sup \in Suppliers : stage_unmanaged_requests(ids, sup)
          \/ \E o \in DOMAIN orders, t \in {"CONFIRMED", "CANCELLED"} : update_order_status(o, t)
          \/ Tick(DEFAULT_DUPLICATE_WINDOW_SECONDS + 1)

SpecBulk == Init /\ [][NextBulk]_vars

\* Concurrent receiving: two receive requests for orders of one item, each
\* reading and then committing, in any interleaving.
ConcPayloads == {<<CatalogLine(1, MaxQty, NULL)>>}

NextConc ==
    \/ \E p \in ConcPayloads : CreateOrder(p, "U", "")
    \/ \E o \in DOMAIN orders, t \in {"CONFIRMED", "SENT"} : update_order_status(o, t)
    \/ \E w \in Workers, o \in OrderIds :
          \E m \in ReceiptMaps(OrderLineIds(o), Qtys) : ReceiveRead(w, o, m)
    \/ \E w \in Workers : ReceiveCommit(w)
    \/ Tick(DEFAULT_DUPLICATE_WINDOW_SECONDS + 1)

SpecConc == Init /\ [][NextConc]_vars

\* Concurrent receiving of different lines: two receive requests for an
\* order of two lines, each reading and then committing, in any interleaving.
ConcLinesPayloads == {<<CatalogLine(1, 1, NULL), FreeLine("X", 1)>>}

NextConcLines ==
    \/ \E p \in ConcLinesPayloads : CreateOrder(p, "U", "")
    \/ \E o \in DOMAIN orders, t \in {"CONFIRMED", "SENT"} : update_order_status(o, t)
    \/ \E w \in Workers, o \in OrderIds :
          \E m \in ReceiptMaps(OrderLineIds(o), {1}) : ReceiveRead(w, o, m)
    \/ \E w \in Workers : ReceiveCommit(w)
    \/ Tick(DEFAULT_DUPLICATE_WINDOW_SECONDS + 1)

SpecConcLines == Init /\ [][NextConcLines]_vars

\* Requests converted one after the other: two requests that ask for the
\* same thing, converted within and after the duplicate window.
ReconvertIds == {{2}, {3}, {1, 2}}
ReconvertPayloads == {<<RequestLine(2)>>, <<RequestLine(3)>>}

NextReconvert ==
    \/ \E ids \in ReconvertIds : stage_unmanaged_requests(ids, 1)
    \/ \E p \in ReconvertPayloads : CreateOrder(p, "U", "")
    \/ \E ids \in ReconvertIds : convert_requests_to_order(ids, 1, "", "U")
    \/ \E o \in DOMAIN orders : update_order_status(o, "CANCELLED")
    \/ Tick(DEFAULT_DUPLICATE_WINDOW_SECONDS + 1)

SpecReconvert == Init /\ [][NextReconvert]_vars

\* Concurrent creation: two create_order requests with different payloads,
\* each computing its id and then inserting, in any interleaving.
WorkerPayload(w) ==
    IF w = 1 THEN <<CatalogLine(1, 1, NULL)>> ELSE <<CatalogLine(2, 1, 2), FreeLine("X", 1)>>

NextCreateConc ==
    \/ \E w \in Workers : CreateRead(w, WorkerPayload(w), "U", "")
    \/ \E w \in Workers : CreateCommit(w)
    \/ \E o \in DOMAIN orders, t \in {"CONFIRMED", "SENT", "CANCELLED"} :
          update_order_status(o, t)
    \/ Tick(DEFAULT_DUPLICATE_WINDOW_SECONDS + 1)

SpecCreateConc == Init /\ [][NextCreateConc]_vars

\* Terminal orders: orders taken to RECEIVED by receipts or by a status
\* change, and every operation on an order called afterwards.
TerminalPayloads == {<<CatalogLine(1, 1, NULL), FreeLine("X", 1)>>}

NextTerminal ==
    \/ \E p \in TerminalPayloads : CreateOrder(p, "U", "")
    \/ \E o \in DOMAIN orders, t \in Statuses : update_order_status(o, t)
    \/ \E o \in DOMAIN orders : \E m \in ReceiptMaps(OrderLineIds(o), {1}) :
          receive_order_partial(o, m, DeliveryDate, DeliveryNote, <<>>)
    \/ \E o \in DOMAIN orders, r \in BOOLEAN : send_email(o, r, "ok")
    \/ \E l \in DOMAIN lines : update_reply_due_date(l, DeliveryDate)
    \/ \E o \in DOMAIN orders, r \in BOOLEAN : GenerateDocument(o, r, "ok")

SpecTerminal == Init /\ [][NextTerminal]_vars

\* Request listing: requests staged and ordered, their orders taken through
\* the status machine, and the listing read in between.
ListingPayloads == {<<RequestLine(1)>>, <<RequestLine(2), CatalogLine(1, 1, NULL)>>}
ListingFilters == {"", "CONVERTED"}

NextListing ==
    \/ \E ids \in SUBSET StagingRequests : stage_unmanaged_requests(ids, 1)
    \/ \E p \in ListingPayloads : CreateOrder(p, "U", "")
    \/ \E o \in DOMAIN orders, t \in Statuses : update_order_status(o, t)
    \/ \E f \in ListingFilters, a \in BOOLEAN, x \in BOOLEAN : ListUnmanagedRequests(f, a, x)

SpecListing == Init /\ [][NextListing]_vars

\* Validation: payloads that create_order rejects, each kind of rejection
\* after a line that is valid, next to payloads it accepts.
ValidationPayloads ==
    {<<>>,
     <<CatalogLine(1, 1, NULL), CatalogLine(UnknownId, 1, NULL)>>,
     <<CatalogLine(1, 1, NULL), FreeLine(" ", 1)>>,
     <<CatalogLine(1, 1, NULL), CatalogLine(1, 0, NULL)>>,
     <<CatalogLine(1, 1, NULL), CatalogLine(2, 1, NULL)>>,
     <<CatalogLine(1, 1, UnknownSupplier)>>,
     <<CatalogLine(1, 1, NULL), CatalogLine(2, 1, 2)>>,
     <<RequestLine(1), RequestLine(2)>>,
     <<CatalogLine(1, 1, NULL)>>,
     <<RequestLine(1)>>}

NextValidation ==
    \/ \E p \in ValidationPayloads : CreateOrder(p, "U", "")
    \/ \E ids \in SUBSET StagingRequests, s \in Suppliers : stage_unmanaged_requests(ids, s)
    \/ \E o \in DOMAIN orders : update_order_status(o, "CANCELLED")
    \/ Tick(DEFAULT_DUPLICATE_WINDOW_SECONDS + 1)

SpecValidation == Init /\ [][NextValidation]_vars

\* Purchase results: an order received in parts and the rows written for
\* it corrected afterwards.
ResultPayloads == {<<CatalogLine(1, MaxQty, NULL)>>}
ResultIds == 1..(MaxLog + 1)
Corrections ==
    {[note |-> " X"],
     [supplier_id |-> 2],
     [supplier_id |-> UnknownSupplier],
     [quantity |-> 1],
     [quantity |-> 0 - 1],
     [unit_price |-> 7],
     [unit_price |-> 0 - 1],
     [amount |-> 7],
     [quantity |-> 1, unit_price |-> 7, amount |-> 7, note |-> "X"]}

NextResult ==
    \/ \E p \in ResultPayloads : CreateOrder(p, "U", "")
    \/ \E o \in DOMAIN orders, t \in {"CONFIRMED", "SENT"} : update_order_status(o, t)
    \/ \E o \in DOMAIN orders : \E m \in ReceiptMaps(OrderLineIds(o), 1..MaxQty) :
          receive_order_partial(o, m, DeliveryDate, DeliveryNote, <<>>)
    \/ \E k \in ResultIds, c \in Corrections : update_purchase_result(k, c)

SpecResult == Init /\ [][NextResult]_vars

\* Every operation, with the inputs of the specifications above.
Next == NextInv \/ NextStatus \/ NextRecv \/ NextCreate \/ NextDup \/ NextReq \/ NextCand \/ NextLink \/ NextSend
          \/ NextPrice \/ NextDoc \/ NextReply \/ NextBulk \/ NextConc \/ NextTerminal \/ NextListing \/ NextValidation \/ NextResult \/ NextConcLines \/ NextReconvert \/ NextCreateConc

Spec == Init /\ [][Next]_vars

\* ------------------------------------------------------------ properties
\* C1: every order line has 0 <= received_quantity <= quantity in every
\* state reached by creating orders, receiving them partially and changing
\* their status.
C1_ReceivedWithinOrdered ==
    \A l \in DOMAIN lines :
        /\ 0 <= lines[l].received_quantity
        /\ lines[l].received_quantity <= lines[l].quantity

\* A line of MaxQty units completed by a second partial receipt.
C1_Witness ==
    /\ last.op = "receive_partial" /\ last.ok
    /\ last.pre_status = "WAITING"
    /\ \E l \in DOMAIN lines :
          /\ lines[l].purchase_order_id = last.order_id
          /\ lines[l].quantity = MaxQty
          /\ lines[l].received_quantity = lines[l].quantity

\* C2: for every item the stock on hand equals the sum of the deltas of the
\* item's inventory transactions, after any sequence of issues, manual
\* receipts, adjustments, inline adjustments, partial receipts and full
\* receipts.
C2_OnHandIsLedgerSum ==
    \A i \in Items : on_hand[i] = SumDelta(ledger, i)

\* The ledger holds a manual movement and the receipt of an order.
C2_Witness ==
    /\ \E k \in DOMAIN ledger : ledger[k].order_id # NULL /\ ledger[k].delta > 0
    /\ \E k \in DOMAIN ledger : ledger[k].order_id = NULL /\ ledger[k].delta # 0
    /\ \E i \in Items : on_hand[i] > 0

\* The eight transitions the claim lists.
C3_AllowedPairs ==
    {<<"DRAFT", "CONFIRMED">>, <<"DRAFT", "CANCELLED">>,
     <<"CONFIRMED", "SENT">>, <<"CONFIRMED", "CANCELLED">>,
     <<"SENT", "WAITING">>, <<"SENT", "CANCELLED">>,
     <<"WAITING", "RECEIVED">>, <<"WAITING", "CANCELLED">>}

\* C3 as stated: update_order_status succeeds exactly for the eight listed
\* (current, target) pairs and fails for every other pair of valid statuses.
C3_OnlyListedPairsSucceed ==
    [][\A o \in DOMAIN orders, t \in Statuses :
          (last'.op = "update_order_status" /\ update_order_status(o, t)) =>
              (last'.ok <=> <<orders[o].status, t>> \in C3_AllowedPairs)]_vars

\* C3 (amended): update_order_status makes the transition for the eight
\* listed pairs; a request for the status the order already has returns
\* success and changes nothing; every other pair of valid statuses fails
\* with an error and leaves the database unchanged.
C3_Transitions ==
    [][\A o \in DOMAIN orders, t \in Statuses :
          (last'.op = "update_order_status" /\ update_order_status(o, t)) =>
              LET cur == orders[o].status IN
              /\ <<cur, t>> \in C3_AllowedPairs =>
                    /\ last'.ok
                    /\ IF t = "CANCELLED" THEN o \notin DOMAIN orders'
                       ELSE orders'[o].status = t
              /\ t = cur => last'.ok /\ UNCHANGED db
              /\ (t # cur /\ <<cur, t>> \notin C3_AllowedPairs) =>
                    ~last'.ok /\ last'.err = "InvalidTransition" /\ UNCHANGED db]_vars

\* A transition out of the terminal status RECEIVED was refused.
C3_Witness ==
    /\ last.op = "update_order_status" /\ ~last.ok
    /\ last.err = "InvalidTransition"
    /\ last.pre_status = "RECEIVED"

\* The supplier a payload line resolves to before the call: the supplier
\* given on the line, else the staged supplier of the line's request or the
\* default supplier of the line's item; free-text lines resolve to none.
C4_Effective(raw) ==
    IF raw.supplier_id # NULL THEN raw.supplier_id
    ELSE IF raw.unmanaged_request_id # NULL
    THEN requests[raw.unmanaged_request_id].staged_supplier_id
    ELSE IF raw.item_id # NULL THEN ItemSupplierId(raw.item_id)
    ELSE NULL

C4_Resolved(p) == {C4_Effective(p[k]) : k \in DOMAIN p} \ {NULL}

C4_CatalogLinked(raw) ==
    IF raw.unmanaged_request_id # NULL THEN ReqItemId(raw.unmanaged_request_id) # NULL
    ELSE raw.item_id # NULL

\* C4: create_order with lines that resolve to more than one supplier fails
\* and persists no order and no line; an order that is created has one
\* supplier, the effective supplier of each of its catalog-linked lines.
C4_SingleSupplier ==
    [][\A p \in CreatePayloads, d \in CreateDepartments :
          (last'.op = "create_order" /\ CreateOrder(p, "U", d)) =>
              /\ Cardinality(C4_Resolved(p)) > 1 =>
                    /\ ~last'.ok
                    /\ orders' = orders /\ lines' = lines /\ requests' = requests
              /\ (last'.ok /\ ~last'.reused) =>
                    LET o == last'.order_id IN
                    /\ o \notin DOMAIN orders
                    /\ orders'[o].supplier_id \in Suppliers
                    /\ \A k \in DOMAIN p :
                          C4_CatalogLinked(p[k]) =>
                              C4_Effective(p[k]) = orders'[o].supplier_id
              /\ \A o \in DOMAIN orders' : orders'[o].supplier_id \in Suppliers]_vars

\* A payload of two suppliers was refused.
C4_Witness ==
    /\ last.op = "create_order" /\ ~last.ok
    /\ last.err = "MixedSupplier"

\* C5 as stated: when a create_order call has created an order, the same
\* call repeated within the duplicate window returns that order's id with
\* reused=true and creates nothing; repeated after the window it creates a
\* new order with reused=false.
C5_SecondCall ==
    [][\A c \in DupCalls :
          (/\ last.op = "create_order" /\ last.ok /\ ~last.reused
           /\ last.payload = c
           /\ CreateOrder(c[1], c[2], c[3])) =>
              LET first == last.order_id IN
              IF now - orders[first].created_at <= DEFAULT_DUPLICATE_WINDOW_SECONDS
              THEN /\ last'.ok /\ last'.reused /\ last'.order_id = first
                   /\ orders' = orders /\ lines' = lines
              ELSE /\ last'.ok /\ ~last'.reused
                   /\ last'.order_id \notin DOMAIN orders
                   /\ DOMAIN orders' = DOMAIN orders \cup {last'.order_id}]_vars

\* C6 as stated: a cancellation through update_order_status removes the
\* order and its lines and leaves every request that was linked to the
\* order PENDING, without order link, line link or staged supplier.
C6_CancelReleasesRequests ==
    [][\A o \in DOMAIN orders :
          (update_order_status(o, "CANCELLED") /\ last'.ok) =>
              /\ o \notin DOMAIN orders'
              /\ \A l \in DOMAIN lines' : lines'[l].purchase_order_id # o
              /\ \A r \in Requests :
                    requests[r].purchase_order_id = o =>
                        /\ requests'[r].status = "PENDING"
                        /\ requests'[r].purchase_order_id = NULL
                        /\ requests'[r].purchase_order_line_id = NULL
                        /\ requests'[r].staged_supplier_id = NULL]_vars

\* Remaining balance of a line before the call.
C7_Remaining(l) == lines[l].quantity - lines[l].received_quantity

\* C7: a receive_partial call in which the quantity given for a line of the
\* order exceeds the line's remaining balance (a balance of 0 included)
\* fails and changes nothing; equivalently no call that succeeds carries
\* such a quantity, and a call that fails leaves the database unchanged.
C7_OverReceiptRejected ==
    [][last'.op = "receive_partial" =>
          /\ last'.ok =>
                \A l \in DOMAIN last'.line_receipts :
                    last'.line_receipts[l] <= C7_Remaining(l)
          /\ ~last'.ok => UNCHANGED db]_vars

\* C8: after a successful receive_partial the order is RECEIVED if every
\* line's received quantity equals its ordered quantity and WAITING
\* otherwise, whether it was SENT or WAITING before.
C8_StatusAfterReceipt ==
    [][(last'.op = "receive_partial" /\ last'.ok) =>
          LET o == last'.order_id
              full == \A l \in DOMAIN lines' :
                         lines'[l].purchase_order_id = o =>
                             lines'[l].received_quantity = lines'[l].quantity
          IN /\ orders[o].status \in {"SENT", "WAITING"}
             /\ orders'[o].status = IF full THEN "RECEIVED" ELSE "WAITING"]_vars

\* A partial receipt on a WAITING order that leaves it WAITING.
C8_Witness ==
    /\ last.op = "receive_partial" /\ last.ok
    /\ last.pre_status = "WAITING"
    /\ orders[last.order_id].status = "WAITING"
    /\ \E l \in DOMAIN lines :
          /\ lines[l].purchase_order_id = last.order_id
          /\ lines[l].received_quantity = lines[l].quantity

\* Quantity the call gives to a line: the entry of the map, or nothing.
C9_Given(m, l) == IF l \in DOMAIN m THEN m[l] ELSE 0

\* Number of entries of a log that satisfy Test.
C9_Count(log, Test(_)) == Cardinality({k \in DOMAIN log : Test(log[k])})

\* C9: a successful receive_partial with explicit quantities adds q to the
\* received quantity of each line given a positive q, adds q to the stock
\* of a catalog line's item with one receipt transaction of delta q, writes
\* one PurchaseResult row of quantity q for the line, and leaves the other
\* lines and the stock of the other items unchanged.
C9_ReceiptEffects ==
    [][(last'.op = "receive_partial" /\ last'.ok /\ last'.line_receipts # <<>>) =>
          LET m == last'.line_receipts
              o == last'.order_id
              given == {l \in DOMAIN lines : C9_Given(m, l) > 0}
          IN
          /\ \A l \in DOMAIN lines :
                lines'[l].received_quantity =
                    lines[l].received_quantity + C9_Given(m, l)
          /\ \A i \in Items :
                on_hand'[i] = on_hand[i]
                    + SumDelta([k \in 1..(Len(ledger') - Len(ledger)) |->
                                   ledger'[Len(ledger) + k]], i)
          /\ \A l \in given :
                /\ lines[l].item_id # NULL =>
                      C9_Count(ledger', LAMBDA t : t.line_id = l /\ t.order_id = o
                                                    /\ t.delta = m[l])
                        = C9_Count(ledger, LAMBDA t : t.line_id = l /\ t.order_id = o
                                                    /\ t.delta = m[l]) + 1
                /\ C9_Count(results', LAMBDA r : r.source_line_id = l
                                                /\ r.source_order_id = o
                                                /\ r.quantity = m[l])
                     = C9_Count(results, LAMBDA r : r.source_line_id = l
                                                /\ r.source_order_id = o
                                                /\ r.quantity = m[l]) + 1
          /\ Len(ledger') = Len(ledger)
                + Cardinality({l \in given : lines[l].item_id # NULL})
          /\ Len(results') = Len(results) + Cardinality(given)]_vars

\* C10: receive_partial succeeds only on an order that is SENT or WAITING;
\* on a DRAFT, CONFIRMED or RECEIVED order, or on a missing one, it fails
\* and changes no line, stock, ledger, PurchaseResult or status.
C10_OnlySentOrWaiting ==
    [][last'.op = "receive_partial" =>
          /\ last'.ok =>
                /\ last'.order_id \in DOMAIN orders
                /\ orders[last'.order_id].status \in {"SENT", "WAITING"}
          /\ last'.pre_status \notin {"SENT", "WAITING"} =>
                ~last'.ok /\ UNCHANGED db]_vars

\* A receipt was refused on an order that is already RECEIVED.
C10_Witness ==
    /\ last.op = "receive_partial" /\ ~last.ok
    /\ last.err = "InvalidState"
    /\ last.pre_status = "RECEIVED"

\* C11: a receive_partial call on a SENT or WAITING order whose given
\* quantities are all 0 fails with NothingToReceive and changes nothing, and
\* every receive_partial call that succeeds has raised the received quantity
\* of at least one line.
C11_ZeroReceiptRejected ==
    [][/\ \A o \in DOMAIN orders :
             \A m \in ReceiptMaps(OrderLineIds(o), {0}) \ {<<>>} :
                (/\ last'.op = "receive_partial"
                 /\ receive_order_partial(o, m, DeliveryDate, DeliveryNote, <<>>)) =>
                    /\ ~last'.ok /\ UNCHANGED db
                    /\ orders[o].status \in {"SENT", "WAITING"} =>
                          last'.err = "NothingToReceive"
       /\ (last'.op = "receive_partial" /\ last'.ok) =>
             \E l \in DOMAIN lines :
                /\ lines[l].purchase_order_id = last'.order_id
                /\ lines'[l].received_quantity > lines[l].received_quantity]_vars

\* A call was refused for receiving nothing while every line of every order
\* still had its whole balance open: the quantities it gave were all 0.
C11_Witness ==
    /\ last.op = "receive_partial" /\ ~last.ok
    /\ last.err = "NothingToReceive"
    /\ last.pre_status = "SENT"
    /\ \A l \in DOMAIN lines : lines[l].received_quantity = 0

\* The statuses of the orders that have a line for item i.
C12_OrderStatusesOf(i) ==
    {orders[lines[l].purchase_order_id].status : l \in {x \in DOMAIN lines : lines[x].item_id = i}}

\* The list build_low_stock_candidates is to return for a department filter.
C12_Expected(d) ==
    {i \in Items :
        /\ ItemReorderPoint(i) > 0
        /\ on_hand[i] <= ItemReorderPoint(i)
        /\ (Strip(d) = "" \/ ItemDepartment(i) = Strip(d))
        /\ C12_OrderStatusesOf(i) \cap {"CONFIRMED", "SENT", "WAITING"} = {}}

\* The list returned is the expected one, without repetition.
C12_Listed ==
    last.op = "low_stock" =>
        LET listed == last.payload[2] IN
        /\ {listed[k] : k \in DOMAIN listed} = C12_Expected(last.payload[1])
        /\ \A j, k \in DOMAIN listed : j # k => listed[j] # listed[k]

\* An item kept off the list only by order o is on the list once o is cancelled.
C12_Relisted ==
    \A o \in DOMAIN orders, d \in CandDepartments :
        (/\ last'.op = "update_order_status" /\ last'.ok
         /\ update_order_status(o, "CANCELLED")) =>
            \A i \in {lines[l].item_id : l \in OrderLineIds(o)} \cap Items :
                (/\ ItemReorderPoint(i) > 0 /\ on_hand[i] <= ItemReorderPoint(i)
                 /\ (Strip(d) = "" \/ ItemDepartment(i) = Strip(d))
                 /\ \A l \in DOMAIN lines \ OrderLineIds(o) :
                       lines[l].item_id = i =>
                          orders[lines[l].purchase_order_id].status
                              \notin {"CONFIRMED", "SENT", "WAITING"}) =>
                    \E k \in DOMAIN build_low_stock_candidates(d)' :
                        build_low_stock_candidates(d)'[k] = i

\* C12: build_low_stock_candidates lists an item exactly when its reorder
\* point is positive, its stock is at or below the reorder point (equality
\* included), the department filter (if any) matches and no CONFIRMED, SENT
\* or WAITING order has a line for it; DRAFT and RECEIVED orders do not
\* exclude it, and an item excluded by an order is listed again once that
\* order is cancelled.
C12_Candidates == []C12_Listed /\ [][C12_Relisted]_vars

\* The list was asked for while the item, with stock equal to its reorder
\* point, was on a DRAFT order and on a RECEIVED order: it is listed.
C12_Witness ==
    /\ last.op = "low_stock"
    /\ last.payload[2] = <<1>>
    /\ on_hand[1] = ItemReorderPoint(1)
    /\ C12_OrderStatusesOf(1) = {"DRAFT", "RECEIVED"}

C14_RequestsConverted ==
    [][(last'.op = "create_order" /\ last'.ok) =>
          LET p == last'.payload[1]
              o == last'.order_id
          IN \A k \in DOMAIN p :
                p[k].unmanaged_request_id # NULL =>
                    LET r == p[k].unmanaged_request_id IN
                    /\ requests'[r].status = "CONVERTED"
                    /\ requests'[r].purchase_order_id = o
                    /\ requests'[r].purchase_order_line_id \in DOMAIN lines'
                    /\ lines'[requests'[r].purchase_order_line_id].purchase_order_id = o
                    /\ requests'[r].staged_supplier_id = NULL
                    /\ requests'[r].staged_at = NULL]_vars

\* C14 for the calls that create an order (reused = false).
C14_ConvertedWhenCreated ==
    [][(last'.op = "create_order" /\ last'.ok /\ ~last'.reused) =>
          LET p == last'.payload[1]
              o == last'.order_id
          IN \A k \in DOMAIN p :
                p[k].unmanaged_request_id # NULL =>
                    LET r == p[k].unmanaged_request_id IN
                    /\ requests'[r].status = "CONVERTED"
                    /\ requests'[r].purchase_order_id = o
                    /\ requests'[r].purchase_order_line_id \in DOMAIN lines'
                    /\ lines'[requests'[r].purchase_order_line_id].purchase_order_id = o
                    /\ requests'[r].staged_supplier_id = NULL
                    /\ requests'[r].staged_at = NULL]_vars

\* The staging fields of every request.
C15_Staging(reqs) ==
    [r \in Requests |-> <<reqs[r].staged_supplier_id, reqs[r].staged_at>>]

\* C15 as stated: stage_unmanaged_requests succeeds only when every given id
\* is a request that is PENDING and not yet staged; otherwise it fails and
\* no staging field changes; on success each request gets the chosen
\* supplier and a staged timestamp, and no order is created.
C15_StageOnlyUnstaged ==
    [][\A ids \in SUBSET Requests, s \in Suppliers :
          (last'.op = "stage" /\ stage_unmanaged_requests(ids, s)) =>
              LET eligible ==
                      /\ ids # {}
                      /\ \A r \in ids : /\ requests[r].status = "PENDING"
                                        /\ requests[r].staged_supplier_id = NULL
              IN
              /\ last'.ok => eligible
              /\ ~eligible => (~last'.ok /\ C15_Staging(requests') = C15_Staging(requests))
              /\ last'.ok =>
                    /\ \A r \in ids : /\ requests'[r].staged_supplier_id = s
                                      /\ requests'[r].staged_at # NULL
                    /\ orders' = orders /\ lines' = lines]_vars

\* C15 without the "not already staged" condition: the call succeeds
\* exactly when every given id is a PENDING request.
C15_StagePending ==
    [][\A ids \in SUBSET Requests, s \in Suppliers :
          (last'.op = "stage" /\ stage_unmanaged_requests(ids, s)) =>
              LET eligible == ids # {} /\ \A r \in ids : requests[r].status = "PENDING"
              IN
              /\ last'.ok <=> eligible
              /\ ~eligible => UNCHANGED db
              /\ last'.ok =>
                    /\ \A r \in ids : /\ requests'[r].staged_supplier_id = s
                                      /\ requests'[r].staged_at # NULL
                    /\ \A r \in Requests \ ids : requests'[r] = requests[r]
                    /\ orders' = orders /\ lines' = lines]_vars

\* C16 as stated: a successful convert_requests_to_order leaves every
\* source request CONVERTED, linked to the returned order and to the line
\* of that order built from the request: the line has the request's item,
\* or its free text, and its quantity.
C16_ConvertLinksOwnLine ==
    [][\A ids \in SUBSET Requests, s \in Suppliers, d \in LinkDepartments :
          (/\ last'.op = "convert" /\ last'.ok
           /\ convert_requests_to_order(ids, s, d, "U")) =>
              \A r \in ids :
                  LET l == requests'[r].purchase_order_line_id IN
                  /\ requests'[r].status = "CONVERTED"
                  /\ requests'[r].purchase_order_id = last'.order_id
                  /\ l \in DOMAIN lines'
                  /\ lines'[l].purchase_order_id = last'.order_id
                  /\ lines'[l].item_id = ReqItemId(r)
                  /\ ReqItemId(r) = NULL =>
                        lines'[l].item_name_free = Strip(ReqItemCodeFree(r))
                  /\ lines'[l].quantity = ReqQuantity(r)]_vars

\* C19: after a successful send_email the order is WAITING, every
\* catalog-linked line whose (item, order supplier) pair had no price row
\* has a price row without a price, and the price rows that existed before
\* the call are unchanged.
C19_SentAndPriceRows ==
    [][(last'.op = "send_email" /\ last'.ok) =>
          LET o == last'.order_id
              sid == orders[o].supplier_id
          IN
          /\ orders'[o].status = "WAITING"
          /\ \A l \in OrderLineIds(o) :
                (lines[l].item_id # NULL
                    /\ <<lines[l].item_id, sid>> \notin DOMAIN item_suppliers) =>
                    /\ <<lines[l].item_id, sid>> \in DOMAIN item_suppliers'
                    /\ item_suppliers'[<<lines[l].item_id, sid>>] = NULL
          /\ \A key \in DOMAIN item_suppliers :
                /\ key \in DOMAIN item_suppliers'
                /\ item_suppliers'[key] = item_suppliers[key]]_vars

\* An order was sent whose supplier already had a price for one of its
\* items and no price row for the other.
C19_Witness ==
    /\ last.op = "send_email" /\ last.ok
    /\ orders[last.order_id].status = "WAITING"
    /\ \E l1, l2 \in OrderLineIds(last.order_id) :
          LET sid == orders[last.order_id].supplier_id IN
          /\ lines[l1].item_id # NULL /\ lines[l2].item_id # NULL
          /\ <<lines[l1].item_id, sid>> \in DOMAIN item_suppliers
          /\ <<lines[l2].item_id, sid>> \in DOMAIN item_suppliers
          /\ item_suppliers[<<lines[l1].item_id, sid>>] = OverridePrice
          /\ item_suppliers[<<lines[l2].item_id, sid>>] = NULL

\* C20 as stated: when send_email fails because the supplier has no
\* recipient address or because the transport raises an error, the order
\* has the status it had before the call, whatever that status was, and a
\* failed send-log entry for the order has been added.
C20_FailedSendKeepsStatus ==
    [][\A o \in DOMAIN orders, r \in BOOLEAN, env \in SendOutcomes :
          (/\ last'.op = "send_email" /\ ~last'.ok
           /\ last'.err \in {"NoRecipient", "SmtpError"}
           /\ send_email(o, r, env)) =>
              /\ orders'[o].status = orders[o].status
              /\ email_logs' = Append(email_logs, EmailLog(o, FALSE))]_vars

\* C20 with the document step counted: an order that was DRAFT is CONFIRMED
\* after the failed call, every other order keeps its status.
C20_FailedSendAfterDraft ==
    [][\A o \in DOMAIN orders, r \in BOOLEAN, env \in SendOutcomes :
          (/\ last'.op = "send_email" /\ ~last'.ok
           /\ last'.err \in {"NoRecipient", "SmtpError"}
           /\ send_email(o, r, env)) =>
              /\ orders'[o].status =
                    IF orders[o].status = "DRAFT" THEN "CONFIRMED" ELSE orders[o].status
              /\ email_logs' = Append(email_logs, EmailLog(o, FALSE))]_vars

\* The first of three prices that is present.
C17_First(override, row_price, item_price) ==
    IF override # NULL THEN override
    ELSE IF row_price # NULL THEN row_price
    ELSE item_price

\* Receiving line by line with the precedence of the claim: acc holds the
\* price rows as the lines before have left them, the history entries due
\* and the price resolved for each catalog-linked line.
C17_ReceiveLine(o, l, prices, acc) ==
    LET item == lines[l].item_id
        sid == orders[o].supplier_id
        key == <<item, sid>>
        row_price == IF key \in DOMAIN acc.rows THEN acc.rows[key] ELSE NULL
        current == C17_First(NULL, row_price, ItemUnitPrice(item))
        override == IF l \in DOMAIN prices THEN prices[l] ELSE NULL
        changes == override # NULL /\ override # current
    IN
    IF item = NULL THEN acc
    ELSE [rows |-> IF changes THEN (key :> override) @@ acc.rows ELSE acc.rows,
          history |-> IF changes
                      THEN Append(acc.history,
                                  [item_id |-> item, supplier_id |-> sid,
                                   old_unit_price |-> current,
                                   new_unit_price |-> override, reference_id |-> l])
                      ELSE acc.history,
          resolved |-> (l :> C17_First(override, row_price, ItemUnitPrice(item)))
                          @@ acc.resolved]

RECURSIVE C17_ReceiveLines(_, _, _, _)
C17_ReceiveLines(o, ids, prices, acc) ==
    IF ids = <<>> THEN acc
    ELSE C17_ReceiveLines(o, Tail(ids), prices, C17_ReceiveLine(o, Head(ids), prices, acc))

\* What a receipt of every open line of order o with the given overrides is
\* to leave behind.
C17_Receipt(o, prices) ==
    C17_ReceiveLines(o,
        SortedSeq({l \in OrderLineIds(o) : lines[l].received_quantity < lines[l].quantity}),
        prices, [rows |-> item_suppliers, history |-> <<>>, resolved |-> <<>>])

\* At creation: the price create_order resolves for a payload line given by
\* item id.
C17_AtCreation ==
    \A p \in PricePayloads :
        LET acc == NormalizeLines(p, [err |-> "", supplier_ids |-> {},
                                      normalized |-> <<>>, resolved_department |-> ""])
        IN acc.err = "" =>
              \A k \in DOMAIN p :
                  p[k].item_id # NULL =>
                      acc.normalized[k].unit_price =
                          C17_First(p[k].unit_price,
                                    ItemSupplierPrice(p[k].item_id, acc.normalized[k].supplier_id),
                                    ItemUnitPrice(p[k].item_id))

\* In the listing: the price shown for every catalog-linked line.
C17_InListing ==
    last.op = "list_orders" =>
        \A j \in DOMAIN last.payload[2] :
            LET o == last.payload[2][j][1]
                shown == last.payload[2][j][2]
            IN \A k \in DOMAIN shown :
                  lines[shown[k][1]].item_id # NULL =>
                      shown[k][2] = C17_First(NULL,
                          ItemSupplierPrice(lines[shown[k][1]].item_id, orders[o].supplier_id),
                          ItemUnitPrice(lines[shown[k][1]].item_id))

\* At receiving: the price of the PurchaseResult row of every catalog-linked
\* line received.
C17_AtReceiving ==
    \A o \in DOMAIN orders : \A prices \in PriceOverrides(OrderLineIds(o)) :
        (/\ last'.op = "receive_partial" /\ last'.ok
         /\ receive_order_partial(o, <<>>, DeliveryDate, DeliveryNote, prices)) =>
            \A k \in (Len(results) + 1)..Len(results') :
                results'[k].item_id # NULL =>
                    results'[k].unit_price =
                        C17_Receipt(o, prices).resolved[results'[k].source_line_id]

\* C17 as stated: the unit price resolved for a catalog-linked line at order
\* creation, in the order listing and at receiving is the first available
\* of the override given with the call, the ItemSupplier price of (item,
\* order supplier) and the item's own price, and is absent only when all
\* three are absent.
C17_PricePrecedence ==
    /\ [](C17_AtCreation /\ C17_InListing)
    /\ [][C17_AtReceiving]_vars

\* C18 as stated: receive_partial appends a UnitPriceHistory entry for a
\* received catalog-linked line exactly when an override is given for the
\* line and differs from the price currently resolved for (item, order
\* supplier); the entry holds that old price and the override, and the
\* ItemSupplier row of the pair then has the override as its price.  No
\* other operation appends to the history, and no entry is changed or removed.
C18_HistoryOnOverride ==
    [][/\ \A o \in DOMAIN orders : \A prices \in PriceOverrides(OrderLineIds(o)) :
             (/\ last'.op = "receive_partial" /\ last'.ok
              /\ receive_order_partial(o, <<>>, DeliveryDate, DeliveryNote, prices)) =>
                 /\ price_history' = price_history \o C17_Receipt(o, prices).history
                 /\ item_suppliers' = C17_Receipt(o, prices).rows
       /\ ~(last'.op = "receive_partial" /\ last'.ok) => price_history' = price_history
       /\ Len(price_history') >= Len(price_history)
       /\ \A k \in DOMAIN price_history : price_history'[k] = price_history[k]]_vars

\* C21: generate_document without regenerate on an order that has a document
\* returns that document's path with reused = TRUE and leaves the document
\* row, the issued date and the status as they are; the first successful
\* generation moves a DRAFT order to CONFIRMED, sets the issued date if it
\* is unset and stores the document; no call of generate_document, failed
\* or not, changes a status other than DRAFT.
C21_DocumentIdempotent ==
    [][\A o \in OrderIds, r \in BOOLEAN, env \in DocOutcomes :
         (last'.op = "generate_document" /\ GenerateDocument(o, r, env)) =>
            /\ (o \in DOMAIN documents /\ ~r) =>
                  /\ last'.ok /\ last'.reused
                  /\ last'.payload = documents[o].pdf_path
                  /\ documents' = documents
                  /\ orders' = orders
            /\ (o \in DOMAIN orders /\ o \notin DOMAIN documents /\ last'.ok) =>
                  /\ ~last'.reused
                  /\ o \in DOMAIN documents'
                  /\ documents'[o].pdf_path = last'.payload
                  /\ orders'[o].status = IF orders[o].status = "DRAFT"
                                         THEN "CONFIRMED" ELSE orders[o].status
                  /\ orders'[o].issued_date = IF orders[o].issued_date = NULL
                                              THEN Today ELSE orders[o].issued_date
            /\ DOMAIN orders' = DOMAIN orders
            /\ \A x \in DOMAIN orders :
                  (x # o \/ orders[x].status # "DRAFT") => orders'[x].status = orders[x].status]_vars

\* A second call without regenerate has answered with the existing document.
C21_Witness ==
    /\ last.op = "generate_document" /\ last.ok /\ last.reused
    /\ last.order_id \in DOMAIN documents
    /\ last.payload = documents[last.order_id].pdf_path
    /\ orders[last.order_id].status \in {"CONFIRMED", "WAITING"}
    /\ orders[last.order_id].issued_date # NULL

\* C22: update_reply_due_date on a line of a SENT order stores the date and
\* moves the order to WAITING; on a line of a WAITING order it stores the
\* date and the order stays WAITING; on a line of an order in any other
\* status it fails, and the line's due date and the order's status stay.
C22_ReplyDueDate ==
    [][\A l \in DOMAIN lines, d \in {x \in ReplyDates : IsIsoDate(x)} :
         (last'.op = "update_reply_due_date" /\ update_reply_due_date(l, d)) =>
            LET o == lines[l].purchase_order_id IN
            IF orders[o].status \in {"SENT", "WAITING"}
            THEN /\ last'.ok
                 /\ lines'[l].vendor_reply_due_date = fromisoformat(d)
                 /\ orders'[o].status = "WAITING"
            ELSE /\ ~last'.ok
                 /\ lines'[l].vendor_reply_due_date = lines[l].vendor_reply_due_date
                 /\ orders'[o].status = orders[o].status]_vars

\* A date recorded on a line of a SENT order has moved the order to WAITING.
C22_Witness ==
    /\ last.op = "update_reply_due_date" /\ last.ok
    /\ last.pre_status = "SENT"
    /\ orders[last.order_id].status = "WAITING"
    /\ lines[last.payload[1]].vendor_reply_due_date = last.payload[2]

\* The catalog-linked lines of order o with a remaining quantity, in id order.
C23_Open(o) ==
    SortedSeq({l \in OrderLineIds(o) :
                 lines[l].item_id # NULL /\ lines[l].received_quantity < lines[l].quantity})

RECURSIVE C23_Remaining(_, _)
C23_Remaining(ids, i) ==
    IF ids = <<>> THEN 0
    ELSE (IF lines[Head(ids)].item_id = i
          THEN lines[Head(ids)].quantity - lines[Head(ids)].received_quantity ELSE 0)
         + C23_Remaining(Tail(ids), i)

\* C23: update_order_status from WAITING to RECEIVED sets every line's
\* received quantity to its ordered quantity and posts, for each
\* catalog-linked line with remaining quantity r > 0, exactly one receipt
\* transaction of delta r that raises the item's on_hand by r; lines already
\* fully received and free-text lines post no transaction.
C23_FullReceipt ==
    [][(/\ last'.op = "update_order_status" /\ last'.ok
        /\ last'.pre_status = "WAITING"
        /\ last'.order_id \in DOMAIN orders'
        /\ orders'[last'.order_id].status = "RECEIVED") =>
          LET o == last'.order_id
              open == C23_Open(o)
          IN
          /\ \A l \in OrderLineIds(o) : lines'[l].received_quantity = lines[l].quantity
          /\ Len(ledger') = Len(ledger) + Len(open)
          /\ \A k \in DOMAIN ledger : ledger'[k] = ledger[k]
          /\ \A k \in DOMAIN open :
                LET tx == ledger'[Len(ledger) + k] IN
                /\ tx.item_id = lines[open[k]].item_id
                /\ tx.tx_type = "receipt"
                /\ tx.delta = lines[open[k]].quantity - lines[open[k]].received_quantity
          /\ \A i \in Items : on_hand'[i] = on_hand[i] + C23_Remaining(open, i)]_vars

\* A WAITING order with a partly received catalog line and a free-text line
\* has been moved to RECEIVED: one transaction for the rest of the catalog line.
C23_Witness ==
    /\ last.op = "update_order_status" /\ last.ok /\ last.pre_status = "WAITING"
    /\ last.order_id \in DOMAIN orders
    /\ orders[last.order_id].status = "RECEIVED"
    /\ \E l \in OrderLineIds(last.order_id) : lines[l].item_id = NULL
    /\ Len(ledger) = 2
    /\ ledger[2].order_id = last.order_id
    /\ \E l \in OrderLineIds(last.order_id) :
          /\ lines[l].item_id = ledger[2].item_id
          /\ ledger[2].delta < lines[l].quantity

\* C24: when create_bulk_orders_from_low_stock fails at a supplier group, no
\* order created for another group during the call is persisted and no
\* request is left converted by the call.
C24_BulkAtomic ==
    (last.op = "bulk" /\ ~last.ok /\ inflight = <<>>) =>
        \A k \in DOMAIN last.payload :
            ~last.payload[k][2] =>
                /\ last.payload[k][1] \notin DOMAIN orders
                /\ \A r \in Requests :
                      ~(requests[r].status = "CONVERTED"
                        /\ requests[r].purchase_order_id = last.payload[k][1])

RECURSIVE C25_LedgerOfLine(_, _)
C25_LedgerOfLine(log, l) ==
    IF log = <<>> THEN 0
    ELSE (IF Head(log).line_id = l THEN Head(log).delta ELSE 0) + C25_LedgerOfLine(Tail(log), l)

RECURSIVE C25_ResultsOfLine(_, _)
C25_ResultsOfLine(rows, l) ==
    IF rows = <<>> THEN 0
    ELSE (IF Head(rows).source_line_id = l THEN Head(rows).quantity ELSE 0)
         + C25_ResultsOfLine(Tail(rows), l)

\* C25: with receive_partial requests for one order interleaved, no line has
\* more recorded as received than ordered, in its received_quantity, in the
\* sum of its receipt transactions and in the sum of its PurchaseResult
\* quantities, and on_hand is the sum of the item's ledger deltas.
C25_ConcurrentReceipts ==
    /\ \A l \in DOMAIN lines :
          /\ lines[l].received_quantity <= lines[l].quantity
          /\ C25_LedgerOfLine(ledger, l) <= lines[l].quantity
          /\ C25_ResultsOfLine(results, l) <= lines[l].quantity
    /\ \A i \in Items : on_hand[i] = SumDelta(ledger, i)

\* C26: once an order is RECEIVED, no call of update_order_status,
\* receive_partial, send_email, update_reply_due_date or generate_document
\* changes its status, deletes it or changes the received quantity of one
\* of its lines.
C26_ReceivedTerminal ==
    [][\A o \in DOMAIN orders :
         orders[o].status = "RECEIVED" =>
            /\ o \in DOMAIN orders'
            /\ orders'[o].status = "RECEIVED"
            /\ \A l \in OrderLineIds(o) :
                  /\ l \in DOMAIN lines'
                  /\ lines'[l].purchase_order_id = o
                  /\ lines'[l].received_quantity = lines[l].received_quantity]_vars

\* send_email has been refused on a RECEIVED order, which is still there.
C26_Witness ==
    /\ last.op = "send_email" /\ ~last.ok /\ last.pre_status = "RECEIVED"
    /\ \E o \in DOMAIN orders :
          /\ orders[o].status = "RECEIVED"
          /\ \A l \in OrderLineIds(o) : lines[l].received_quantity = lines[l].quantity

\* C27: list_unmanaged_requests derives each display status from the current
\* state on every read: PENDING gives unprocessed, REJECTED rejected,
\* CONVERTED with a RECEIVED order received, CONVERTED with a cancelled or
\* missing order order cancelled, CONVERTED otherwise ordered; a read after
\* an operation that changed the order's status shows the new value.
C27_Derived(status, has_order, order_status) ==
    CASE status = "PENDING" -> "unprocessed"
      [] status = "REJECTED" -> "rejected"
      [] status = "CONVERTED" /\ has_order /\ order_status = "RECEIVED" -> "received"
      [] status = "CONVERTED" /\ (~has_order \/ order_status = "CANCELLED") -> "order_cancelled"
      [] OTHER -> "ordered"
C27_DisplayStatus ==
    /\ \A s \in RequestStatuses, h \in BOOLEAN, os \in Statuses :
          display_status(s, h, os) = C27_Derived(s, h, os)
    /\ last.op = "list_unmanaged_requests" =>
          \A k \in DOMAIN last.payload :
             LET row == last.payload[k]
                 r == row.id
             IN /\ row.status = requests[r].status
                /\ row.display_status =
                      C27_Derived(requests[r].status, RequestHasOrder(r), RequestOrderStatus(r))

\* A listing that shows a converted request whose order has been received.
C27_Witness ==
    /\ last.op = "list_unmanaged_requests"
    /\ \E k \in DOMAIN last.payload :
          /\ last.payload[k].status = "CONVERTED"
          /\ last.payload[k].display_status = "received"
          /\ orders[last.payload[k].purchase_order_id].status = "RECEIVED"

\* C28: a create_order call that fails validation (empty line list, unknown
\* item id, free-text line with empty name, quantity below 1, catalog line
\* with neither a per-line nor a default supplier, unknown supplier, mixed
\* suppliers, linked request that is not staged) persists no order and no
\* line and changes no unmanaged request.
C28_IsRequestLine(raw) == raw.unmanaged_request_id # NULL
C28_IsCatalogLine(raw) == ~C28_IsRequestLine(raw) /\ raw.item_id # NULL
C28_IsFreeLine(raw) == ~C28_IsRequestLine(raw) /\ raw.item_id = NULL
C28_Staged(r) ==
    r \in Requests /\ requests[r].status = "PENDING" /\ requests[r].staged_supplier_id # NULL
\* The suppliers the lines of a payload ask for.
C28_LineSuppliers(p) ==
    {p[k].supplier_id : k \in {j \in DOMAIN p : ~C28_IsFreeLine(p[j]) /\ p[j].supplier_id # NULL}}
    \cup {ItemSupplierId(p[k].item_id) :
            k \in {j \in DOMAIN p : /\ C28_IsCatalogLine(p[j]) /\ p[j].supplier_id = NULL
                                     /\ p[j].item_id \in Items
                                     /\ ItemSupplierId(p[j].item_id) # NULL}}
    \cup {requests[p[k].unmanaged_request_id].staged_supplier_id :
            k \in {j \in DOMAIN p : /\ C28_IsRequestLine(p[j]) /\ p[j].supplier_id = NULL
                                     /\ C28_Staged(p[j].unmanaged_request_id)}}
C28_Invalid(p) ==
    \/ p = <<>>
    \/ \E k \in DOMAIN p : C28_IsCatalogLine(p[k]) /\ p[k].item_id \notin Items
    \/ \E k \in DOMAIN p : C28_IsFreeLine(p[k]) /\ Strip(p[k].item_name_free) = ""
    \/ \E k \in DOMAIN p : ~C28_IsRequestLine(p[k]) /\ p[k].quantity < 1
    \/ \E k \in DOMAIN p : /\ C28_IsCatalogLine(p[k]) /\ p[k].item_id \in Items
                             /\ p[k].supplier_id = NULL /\ ItemSupplierId(p[k].item_id) = NULL
    \/ \E s \in C28_LineSuppliers(p) : s \notin Suppliers
    \/ Cardinality(C28_LineSuppliers(p)) > 1
    \/ \E k \in DOMAIN p : C28_IsRequestLine(p[k]) /\ ~C28_Staged(p[k].unmanaged_request_id)
C28_FailedCreatePersistsNothing ==
    [][/\ \A p \in ValidationPayloads :
            (CreateOrder(p, "U", "") /\ C28_Invalid(p)) =>
                (~last'.ok /\ orders' = orders /\ lines' = lines /\ requests' = requests)
       /\ (last'.op = "create_order" /\ ~last'.ok /\ now' = now) =>
                (orders' = orders /\ lines' = lines /\ requests' = requests)]_vars

\* A rejected call, made while an order and a staged request exist that a
\* partial write would have changed.
C28_Witness ==
    /\ last.op = "create_order" /\ ~last.ok /\ last.err = "RequestNotStaged"
    /\ DOMAIN orders # {}
    /\ requests[1].staged_supplier_id # NULL /\ requests[1].status = "PENDING"

\* C29: quantity_on_hand is never negative: an issue or a downward
\* adjustment whose result would be negative fails, leaves on_hand unchanged
\* and writes no ledger transaction; a receipt never fails for this reason.
C29_Refused == ~last'.ok /\ on_hand' = on_hand /\ ledger' = ledger
C29_OnHandNeverNegative ==
    /\ [](\A i \in Items : on_hand[i] >= 0)
    /\ [][/\ \A i \in Items :
              (api_inventory_issue(i, 1) /\ on_hand[i] - 1 < 0) => C29_Refused
          /\ \A i \in Items, d \in {0 - 1, 1} :
              (api_inventory_adjustment(i, d) /\ on_hand[i] + d < 0) => C29_Refused
          /\ \A i \in Items, d \in {0 - MaxQty, 1} :
              (inventory_adjust(i, d) /\ on_hand[i] + d < 0) => C29_Refused
          /\ \A i \in Items :
              api_inventory_receipt(i, MaxQty) => (last'.ok /\ on_hand'[i] = on_hand[i] + MaxQty)
          /\ last'.op \in {"receipt", "receive_partial", "update_order_status"}
                => last'.err # "InsufficientStock"]_vars

\* An issue refused for lack of stock while the ledger has a movement and
\* an item is out of stock.
C29_Witness ==
    /\ last.op = "issue" /\ ~last.ok /\ last.err = "InsufficientStock"
    /\ ledger # <<>>
    /\ \E i \in Items : on_hand[i] = 0

\* C30: the PurchaseResult correction changes only presentation fields: the
\* quantity, unit price and amount of every row are the same after the call
\* as before it, for every correction payload.
C30_CorrectionKeepsAmounts ==
    [][\A k \in ResultIds, c \in Corrections :
          update_purchase_result(k, c) =>
             /\ DOMAIN results' = DOMAIN results
             /\ \A j \in DOMAIN results :
                   /\ results'[j].quantity = results[j].quantity
                   /\ results'[j].unit_price = results[j].unit_price
                   /\ results'[j].amount = results[j].amount]_vars

\* What the correction does keep: a payload without quantity, unit_price
\* and amount leaves the three alone, a refused correction changes nothing,
\* and no correction touches a table other than purchase_results.
C30_WithoutAmountFields ==
    [][\A k \in ResultIds, c \in Corrections :
          update_purchase_result(k, c) =>
             /\ UNCHANGED <<orders, lines, requests, on_hand, ledger>>
             /\ ~last'.ok => results' = results
             /\ DOMAIN c \cap {"quantity", "unit_price", "amount"} = {} =>
                   \A j \in DOMAIN results :
                      /\ results'[j].quantity = results[j].quantity
                      /\ results'[j].unit_price = results[j].unit_price
                      /\ results'[j].amount = results[j].amount]_vars

\* C31: deleting an order by cancellation deletes its lines and its
\* generated-document record but keeps its email send-log entries: every
\* send-log entry that existed before the cancellation exists after it.
C31_Cancelled(o) ==
    /\ last'.op = "update_order_status" /\ last'.ok
    /\ update_order_status(o, "CANCELLED")
    /\ o \notin DOMAIN orders'
C31_CancelKeepsSendLogs ==
    [][\A o \in DOMAIN orders :
          C31_Cancelled(o) =>
             /\ \A l \in OrderLineIds(o) : l \notin DOMAIN lines'
             /\ o \notin DOMAIN documents'
             /\ email_logs' = email_logs]_vars

\* What the cancellation does: the lines, the document record and the
\* send-log entries of the order go, the entries of other orders stay.
C31_CancelCascades ==
    [][\A o \in DOMAIN orders :
          C31_Cancelled(o) =>
             /\ \A l \in OrderLineIds(o) : l \notin DOMAIN lines'
             /\ o \notin DOMAIN documents'
             /\ email_logs' = SelectSeq(email_logs, LAMBDA e : e.purchase_order_id # o)]_vars

\* C32: at most one ItemSupplier row exists per (item, supplier) pair:
\* send_email and receive_partial with a price override create the row only
\* when it is absent and otherwise update it, and they complete successfully
\* also when one order carries several lines for the same item.
C32_OneRowPerPair ==
    [][(last'.op \in {"send_email", "receive_partial"} /\ now' = now) =>
          /\ last'.err # "IntegrityError"
          /\ \A key \in DOMAIN item_suppliers : key \in DOMAIN item_suppliers']_vars

\* What holds: the calls on orders whose catalog lines have distinct items
\* never fail on the unique constraint, and a committed row is never removed.
C32_DistinctItems ==
    [][(last'.op \in {"send_email", "receive_partial"} /\ now' = now) =>
          /\ (last'.err = "IntegrityError" =>
                 \E o \in DOMAIN orders : \E l1, l2 \in OrderLineIds(o) :
                    l1 # l2 /\ lines[l1].item_id # NULL /\ lines[l1].item_id = lines[l2].item_id)
          /\ \A key \in DOMAIN item_suppliers : key \in DOMAIN item_suppliers']_vars

\* C33: an order's status is RECEIVED exactly when every one of its lines
\* has a received quantity equal to its ordered quantity.
C33_FullyReceived(o) ==
    \A l \in OrderLineIds(o) : lines[l].received_quantity = lines[l].quantity
C33_ReceivedIffAllLines ==
    \A o \in DOMAIN orders : (orders[o].status = "RECEIVED") <=> C33_FullyReceived(o)

\* C34: every change of an order's status made by a single call of
\* update_order_status, generate_document, send_email,
\* update_reply_due_date or receive_partial is one of the pairs of the
\* allowed-transition table; no operation skips a state.
C34_Changed(o) == o \in DOMAIN orders' /\ orders'[o].status # orders[o].status
C34_OnlyTablePairs ==
    [][\A o \in DOMAIN orders :
          C34_Changed(o) => <<orders[o].status, orders'[o].status>> \in C3_AllowedPairs]_vars

\* The changes the calls make: update_order_status, generate_document and
\* update_reply_due_date stay within the table; send_email takes an order
\* from DRAFT or CONFIRMED to WAITING and receive_partial takes an order
\* from SENT to RECEIVED.
C34_ChangesMade ==
    [][\A o \in DOMAIN orders :
          C34_Changed(o) =>
             \/ <<orders[o].status, orders'[o].status>> \in C3_AllowedPairs
             \/ /\ last'.op = "send_email"
                /\ orders[o].status \in {"DRAFT", "CONFIRMED"}
                /\ orders'[o].status = "WAITING"
             \/ /\ last'.op = "receive_partial"
                /\ orders[o].status = "SENT"
                /\ orders'[o].status = "RECEIVED"]_vars

\* C35: after any sequence of stage, create_order,
\* convert_requests_to_order and cancel operations no two CONVERTED
\* requests are linked to the same purchase order line, also when the
\* second conversion falls inside the duplicate window of the first.
C35_OneRequestPerLine ==
    \A r1, r2 \in Requests :
       (/\ r1 # r2
        /\ requests[r1].status = "CONVERTED" /\ requests[r2].status = "CONVERTED"
        /\ requests[r1].purchase_order_line_id # NULL)
          => requests[r1].purchase_order_line_id # requests[r2].purchase_order_line_id

\* C36: each PurchaseResult row whose source order id is the id of an
\* existing order was written by a receive_partial call on that very order,
\* also after the id of a cancelled, partially received order has been
\* recycled: the order has been received into, the row's line is one of
\* its lines and that line has received at least the row's quantity.
C36_ResultsOfExistingOrders ==
    \A k \in DOMAIN results :
       results[k].source_order_id \in DOMAIN orders =>
          LET o == results[k].source_order_id
              l == results[k].source_line_id
          IN /\ orders[o].status \in {"WAITING", "RECEIVED"}
             /\ l \in OrderLineIds(o)
             /\ lines[l].received_quantity >= results[k].quantity

\* While no order is cancelled the rows belong to the orders they name.
C36_WithoutCancellation ==
    [][(last'.op = "update_order_status" /\ DOMAIN orders' # DOMAIN orders)
          \/ (\A k \in DOMAIN results' :
                 (k \notin DOMAIN results /\ last'.op = "receive_partial") =>
                    /\ results'[k].source_order_id = last'.order_id
                    /\ results'[k].source_line_id \in OrderLineIds(last'.order_id)
                    /\ lines'[results'[k].source_line_id].received_quantity
                          >= results'[k].quantity)]_vars

\* C37: an unmanaged request is CONVERTED exactly when its order link is
\* non-null, and then the linked order exists and the linked line is a line
\* of that order; a PENDING request has neither an order link nor a line
\* link.
C37_RequestLinks ==
    \A r \in Requests :
       /\ (requests[r].status = "CONVERTED") <=> (requests[r].purchase_order_id # NULL)
       /\ requests[r].status = "CONVERTED" =>
             /\ requests[r].purchase_order_id \in DOMAIN orders
             /\ requests[r].purchase_order_line_id \in OrderLineIds(requests[r].purchase_order_id)
       /\ requests[r].status = "PENDING" =>
             /\ requests[r].purchase_order_id = NULL
             /\ requests[r].purchase_order_line_id = NULL

\* Requests 1 and 2 are converted into two orders, request 3 is pending.
C37_Witness ==
    /\ requests[1].status = "CONVERTED" /\ requests[2].status = "CONVERTED"
    /\ requests[1].purchase_order_id # requests[2].purchase_order_id
    /\ requests[3].status = "PENDING"
    /\ last.op = "convert" /\ last.ok

\* C39: when two create_order requests with different payloads interleave,
\* each computing the lowest unused id before either has committed its
\* order, both complete successfully and the two orders have distinct ids.
C39_BothCreated ==
    [][\A w \in Workers :
          CreateCommit(w) =>
             /\ last'.ok
             /\ last'.order_id \in DOMAIN orders' \ DOMAIN orders
             /\ orders'[last'.order_id].supplier_id = inflight[w].order.supplier_id]_vars

\* With one request at a time every create_order that passes its checks
\* stores its order under an id no other order has.
C39_OneAtATime ==
    [][\A w \in Workers :
          (CreateCommit(w) /\ DOMAIN inflight = {w}
              /\ inflight[w].id = _allocate_reusable_order_id) =>
             /\ last'.ok
             /\ last'.order_id \in DOMAIN orders' \ DOMAIN orders]_vars

RECURSIVE C38_ResultQuantity(_, _, _)
C38_ResultQuantity(rows, o, l) ==
    IF rows = <<>> THEN 0
    ELSE (IF Head(rows).source_order_id = o /\ Head(rows).source_line_id = l
          THEN Head(rows).quantity ELSE 0)
         + C38_ResultQuantity(Tail(rows), o, l)

\* C38: for every existing order line, after any sequence of receive_partial
\* and update_order_status calls, the sum of the PurchaseResult quantities
\* written for that line equals the line's received quantity.
C38_ResultsMatchReceived ==
    \A l \in DOMAIN lines :
       C38_ResultQuantity(results, lines[l].purchase_order_id, l) = lines[l].received_quantity

\* A successful receive_partial raises the received quantity of each line
\* and the sum of the line's PurchaseResult quantities by the same amount.
C38_ReceiptWritesResults ==
    [][\A o \in DOMAIN orders :
          \A m \in ReceiptMaps(OrderLineIds(o), {1, MaxQty + 1}) :
             (receive_order_partial(o, m, DeliveryDate, DeliveryNote, <<>>) /\ last'.ok) =>
                \A l \in OrderLineIds(o) :
                   C38_ResultQuantity(results', o, l) - C38_ResultQuantity(results, o, l)
                      = lines'[l].received_quantity - lines[l].received_quantity]_vars

\* C40: the order produced by convert_requests_to_order has as its supplier
\* the supplier passed to the call, for requests that reference a catalog
\* item as well as for free-text requests.
C40_ConvertedToChosenSupplier ==
    [][\A ids \in SUBSET Requests, s \in Suppliers, d \in LinkDepartments :
          (last'.op = "convert" /\ last'.ok /\ convert_requests_to_order(ids, s, d, "U")) =>
             /\ last'.order_id \in DOMAIN orders'
             /\ orders'[last'.order_id].supplier_id = s]_vars

\* When every request of the call is free text, the order has the supplier
\* passed to the call.
C40_FreeTextToChosenSupplier ==
    [][\A ids \in SUBSET Requests, s \in Suppliers, d \in LinkDepartments :
          (/\ last'.op = "convert" /\ last'.ok
           /\ \A r \in ids : ReqItemId(r) = NULL
           /\ convert_requests_to_order(ids, s, d, "U")) =>
             /\ last'.order_id \in DOMAIN orders'
             /\ orders'[last'.order_id].supplier_id = s]_vars

====
